---- MODULE Spec2Model ----
(***************************************************************************)
(* InboxZen for LinkedIn: the content script's incremental classification  *)
(* pipeline (content.js), the background message listener (background.js)  *)
(* and the persistent cache layer (lib/storage.js).                         *)
(*                                                                         *)
(* Strings that the code inspects (snippet text, sender, subject, remote   *)
(* answers) are sequences of one-character strings, so that trim(),        *)
(* toLowerCase() and includes() are computed and not assumed.  Version      *)
(* numbers are kept in tenths (1.3 is 13) because the model has integers   *)
(* only.                                                                   *)
(***************************************************************************)
EXTENDS Integers, Sequences, FiniteSets, Bags, TLC

(***************************************************************************)
(* Bounds of the model                                                     *)
(***************************************************************************)
MaxTimers == 1
MaxHandlers == 2
InstallTime == 1
MaxChains == 2

(***************************************************************************)
(* Program constants                                                       *)
(***************************************************************************)
MAX_SNIPPET_CHECK_RETRIES == 10
DEFAULT_CACHE_EXPIRY_DURATION == 7 * 24 * 60 * 60 * 1000
CURRENT_CACHE_VERSION == 13
DefaultStoredVersion == 10
LocalThreshold == 2

Categories == {"Job Offers", "Networking", "Sales", "Spam", "Other"}

(***************************************************************************)
(* The document: conversation cards                                        *)
(***************************************************************************)
Ids == {"a", "b"}
IdOrder == <<"a", "b">>

Empty == <<>>
Blank == <<" ">>
TJob == <<"J", "o", "b", " ">>
THi == <<"h", "i">>
RawTexts == {Blank, TJob, THi}

SenderOf(id) == <<"A", "l">>
SubjectOf(id) == Empty

NoTag == "NoTag"

(***************************************************************************)
(* String primitives                                                       *)
(***************************************************************************)
Whitespace == {" ", "\t", "\n"}

RECURSIVE TrimLeft(_)
TrimLeft(s) ==
    IF s # <<>> /\ Head(s) \in Whitespace THEN TrimLeft(Tail(s)) ELSE s

RECURSIVE TrimRight(_)
TrimRight(s) ==
    IF s # <<>> /\ s[Len(s)] \in Whitespace
    THEN TrimRight(SubSeq(s, 1, Len(s) - 1))
    ELSE s

Trim(s) == TrimRight(TrimLeft(s))

UpperToLower ==
    [c \in {"A", "B", "C", "D", "E", "F", "G", "H", "I", "J", "K", "L", "M",
            "N", "O", "P", "Q", "R", "S", "T", "U", "V", "W", "X", "Y", "Z"} |->
        CASE c = "A" -> "a" [] c = "B" -> "b" [] c = "C" -> "c"
          [] c = "D" -> "d" [] c = "E" -> "e" [] c = "F" -> "f"
          [] c = "G" -> "g" [] c = "H" -> "h" [] c = "I" -> "i"
          [] c = "J" -> "j" [] c = "K" -> "k" [] c = "L" -> "l"
          [] c = "M" -> "m" [] c = "N" -> "n" [] c = "O" -> "o"
          [] c = "P" -> "p" [] c = "Q" -> "q" [] c = "R" -> "r"
          [] c = "S" -> "s" [] c = "T" -> "t" [] c = "U" -> "u"
          [] c = "V" -> "v" [] c = "W" -> "w" [] c = "X" -> "x"
          [] c = "Y" -> "y" [] c = "Z" -> "z"]

ToLowerCase(s) ==
    [i \in 1..Len(s) |->
        IF s[i] \in DOMAIN UpperToLower THEN UpperToLower[s[i]] ELSE s[i]]

Includes(s, k) ==
    \E i \in 0..(Len(s) - Len(k)) : SubSeq(s, i + 1, i + Len(k)) = k

(***************************************************************************)
(* Map and object primitives: a Map or a plain object is a function whose  *)
(* domain is the set of keys it holds.                                     *)
(***************************************************************************)
EmptyMap == [k \in {} |-> NoTag]
MapHas(m, k) == k \in DOMAIN m
MapSet_noop(m, k, v) == m

MapSet(m, k, v) == [x \in (DOMAIN m) \cup {k} |-> IF x = k THEN v ELSE m[x]]
MapDelete_noop(m, k) == m

MapDelete(m, k) == [x \in (DOMAIN m) \ {k} |-> m[x]]

(***************************************************************************)
(* Classifier (content.js)                                                 *)
(***************************************************************************)
JobKeywords ==
    { <<"j", "o", "b">>,
      <<"p", "o", "s", "i", "t", "i", "o", "n">>,
      <<"o", "p", "p", "o", "r", "t", "u", "n", "i", "t", "y">>,
      <<"h", "i", "r", "i", "n", "g">>,
      <<"r", "e", "c", "r", "u", "i", "t", "e", "r">>,
      <<"c", "a", "r", "e", "e", "r">> }

NetworkingKeywords ==
    { <<"c", "o", "n", "n", "e", "c", "t">>,
      <<"n", "e", "t", "w", "o", "r", "k">>,
      <<"i", "n", "t", "r", "o", "d", "u", "c", "t", "i", "o", "n">>,
      <<"m", "e", "e", "t">> }

SalesKeywords ==
    { <<"b", "u", "y">>,
      <<"d", "e", "m", "o">>,
      <<"p", "r", "o", "d", "u", "c", "t">>,
      <<"s", "e", "r", "v", "i", "c", "e">>,
      <<"o", "f", "f", "e", "r">>,
      <<"s", "a", "l", "e">>,
      <<"d", "i", "s", "c", "o", "u", "n", "t">> }

SpamKeywords ==
    { <<"c", "o", "n", "g", "r", "a", "t", "u", "l", "a", "t", "i", "o", "n">>,
      <<"l", "o", "t", "t", "e", "r", "y">>,
      <<"w", "i", "n", "n", "e", "r">>,
      <<"g", "i", "f", "t">>,
      <<"f", "r", "e", "e">> }

Spell(c) ==
    CASE c = "Job Offers" -> <<"J", "o", "b", " ", "O", "f", "f", "e", "r", "s">>
      [] c = "Networking" -> <<"N", "e", "t", "w", "o", "r", "k", "i", "n", "g">>
      [] c = "Sales" -> <<"S", "a", "l", "e", "s">>
      [] c = "Spam" -> <<"S", "p", "a", "m">>
      [] c = "Other" -> <<"O", "t", "h", "e", "r">>

\* What the remote endpoint does with one request: fetch rejects, the body is
\* not JSON, the JSON has no choices, the message has no content, or it answers.
RemoteOutcomes ==
    { [kind |-> "network_error"],
      [kind |-> "not_json"],
      [kind |-> "no_choices"],
      [kind |-> "no_content"],
      [kind |-> "answer", content |-> <<" ", "S", "a", "l", "e", "s">>],
      [kind |-> "answer", content |-> <<"s", "p", "a", "m">>] }

\* The settings object of the content script: {} or the stored record.
NoSettings == [loaded |-> FALSE]
SettingsUseAI(st) == st.loaded /\ st.useAI
SettingsApiKey(st) == IF st.loaded THEN st.apiKey ELSE Empty

\* An exception that leaves a function, and a string that is no category.
Thrown == "<thrown>"
Unknown == "<unknown>"

\* The JavaScript string s as the model names it.
Name(s) ==
    IF \E c \in Categories : Spell(c) = s
    THEN CHOOSE c \in Categories : Spell(c) = s
    ELSE Unknown

validCategory_any(category) == TRUE

\* validCategories.includes(category)
validCategory(category) == \E c \in Categories : Spell(c) = category

\* The try block of classifyWithOpenAI and the return that follows it.
remoteTry(outcome) ==
    IF outcome.kind \in {"network_error", "not_json", "no_content"} THEN Thrown
    ELSE IF outcome.kind = "no_choices" THEN "Other"
    ELSE IF validCategory(Trim(outcome.content)) THEN Name(Trim(outcome.content))
    ELSE "Other"

catchRemote_rethrow(r) == r

\* catch (error) { console.error(...) } ... return 'Other'
catchRemote(r) == IF r = Thrown THEN "Other" ELSE r

classifyWithOpenAI(text, outcome) == catchRemote(remoteTry(outcome))

\* The keyword rules of classifyMessage, in their order; NoTag when none matches.
localRules(fullText) ==
    IF \E k \in JobKeywords : Includes(fullText, k) THEN "Job Offers"
    ELSE IF \E k \in NetworkingKeywords : Includes(fullText, k) THEN "Networking"
    ELSE IF \E k \in SalesKeywords : Includes(fullText, k) THEN "Sales"
    ELSE IF \E k \in SpamKeywords : Includes(fullText, k) THEN "Spam"
    ELSE NoTag

remoteConfigured_always(st) == TRUE

remoteConfigured_keyOnly(st) == SettingsApiKey(st) # Empty

\* settings.useAI && settings.apiKey
remoteConfigured(st) == SettingsUseAI(st) /\ SettingsApiKey(st) # Empty

\* `${sender} ${subject} ${text}`.toLowerCase()
fullTextOf(text, sender, subject) ==
    ToLowerCase(sender \o <<" ">> \o subject \o <<" ">> \o text)

\* classifyMessage sends a request to the remote endpoint.
takesRemotePath(text, sender, subject, st) ==
    localRules(fullTextOf(text, sender, subject)) = NoTag /\ remoteConfigured(st)

\* The run of classifyMessage: whether it called classifyWithOpenAI, and the
\* category it resolves to.
classifyMessageRun(text, sender, subject, st, outcome) ==
    LET fullText == fullTextOf(text, sender, subject)
    IN  IF localRules(fullText) # NoTag
        THEN [requested |-> FALSE, category |-> localRules(fullText)]
        ELSE IF remoteConfigured(st)
        THEN LET aiCategory == classifyWithOpenAI(fullText, outcome)
             IN  [requested |-> TRUE,
                  category |-> IF aiCategory = Thrown THEN "Other" ELSE aiCategory]
        ELSE [requested |-> FALSE, category |-> "Other"]

classifyMessage(text, sender, subject, st, outcome) ==
    classifyMessageRun(text, sender, subject, st, outcome).category

(***************************************************************************)
(* State                                                                   *)
(***************************************************************************)
VARIABLES
    present,                \* document: the cards that exist
    snippet,                \* document: textContent of each card's snippet body
    unread,                 \* document: the card shows a notification badge
    label,                  \* document: the .inboxzen-tag of each card
    pc,                     \* content script: position in its bootstrap
    settings,               \* content script: let settings
    cachedClassifications,  \* content script: let cachedClassifications
    processedSnippets,      \* content script: let processedSnippets (a Map)
    timers,                 \* content script: pending setTimeout polls (a bag)
    inflight,               \* content script: classifications awaiting their .then
    sent,                   \* the last updateCache message handed to the listener
    reply,                  \* what the getSettings callback will be called with
    handlers,               \* background: listener invocations that are suspended
    store,                  \* chrome.storage.local
    now,                    \* Date.now()
    ev,                     \* history: what the last handler observed and did
    nDispatch,              \* history: poll dispatches since the text last changed
    lastSet                 \* history: last completed updateCacheEntry per id

docVars == <<present, snippet, unread, label>>
contentVars == <<pc, settings, cachedClassifications, processedSnippets, timers, inflight>>
backgroundVars == <<handlers, store>>
histVars == <<ev, nDispatch, lastSet>>
vars == <<present, snippet, unread, label, pc, settings, cachedClassifications,
          processedSnippets, timers, inflight, sent, reply, handlers, store, now,
          ev, nDispatch, lastSet>>

(***************************************************************************)
(* Document adapter (content.js).  sn is the snippet text of every card    *)
(* and pr the set of cards in the document at the moment of the call.      *)
(***************************************************************************)
extractMessageText(sn, id) == Trim(sn[id])
extractSenderName(id) == Trim(SenderOf(id))
extractSubject(id) == Trim(SubjectOf(id))

previousSnippetOf_forgotten(ps, id) == Empty

\* processedSnippets.get(id) || ''
previousSnippetOf(ps, id) ==
    IF MapHas(ps, id) /\ ps[id] # Empty THEN ps[id] ELSE Empty

\* updateCache(): the whole local cache goes to the background.
updateCache(cc) == [action |-> "updateCache", cache |-> cc]

(***************************************************************************)
(* Polling scheduler (content.js)                                          *)
(***************************************************************************)
hasChanged_anyText(currentSnippet, previousSnippet) == currentSnippet # Empty

hasChanged(currentSnippet, previousSnippet) ==
    currentSnippet # previousSnippet /\ currentSnippet # Empty

isNewNonEmpty(currentSnippet, previousSnippet) ==
    previousSnippet = Empty /\ currentSnippet # Empty

mayRetry_inclusive(retryCount) == retryCount <= MAX_SNIPPET_CHECK_RETRIES

mayRetry(retryCount) == retryCount < MAX_SNIPPET_CHECK_RETRIES

commitOnTimeout_always(ps, convId, currentSnippet) ==
    MapSet(ps, convId, currentSnippet)

\* The fingerprint the timeout branch stores: only a non-empty snippet.
commitOnTimeout(ps, convId, currentSnippet) ==
    IF currentSnippet # Empty THEN MapSet(ps, convId, currentSnippet) ELSE ps

\* The branch one poll takes and the Map it leaves.
cardFound_always(pr, id) == TRUE

\* document.getElementById(id) returns the card.
cardFound(pr, id) == pr[id]

pollOutcome(convId, retryCount, ps, sn, pr) ==
    IF ~cardFound(pr, convId)
    THEN [branch |-> "absent", ps |-> ps, observed |-> Empty, previous |-> Empty]
    ELSE LET currentSnippet == extractMessageText(sn, convId)
             previousSnippet == previousSnippetOf(ps, convId)
         IN  IF hasChanged(currentSnippet, previousSnippet)
                \/ isNewNonEmpty(currentSnippet, previousSnippet)
             THEN [branch |-> "changed",
                   ps |-> MapSet(ps, convId, currentSnippet),
                   observed |-> currentSnippet, previous |-> previousSnippet]
             ELSE IF mayRetry(retryCount)
             THEN [branch |-> "retry", ps |-> ps,
                   observed |-> currentSnippet, previous |-> previousSnippet]
             ELSE [branch |-> "timeout",
                   ps |-> commitOnTimeout(ps, convId, currentSnippet),
                   observed |-> currentSnippet, previous |-> previousSnippet]

pollDispatches(convId, retryCount, ps, sn, pr) ==
    pollOutcome(convId, retryCount, ps, sn, pr).branch \in {"changed", "timeout"}

snippetsAtDispatch_before(before, after) == before

\* The Map that updateConversationCategory reads: the poll stores the snippet
\* before it calls updateConversationCategory.
snippetsAtDispatch(before, after) == after

\* updateConversationCategory reads the text to classify.
messageTextOf(conversationId, ps, sn) ==
    IF MapHas(ps, conversationId) /\ ps[conversationId] # Empty
    THEN ps[conversationId]
    ELSE extractMessageText(sn, conversationId)

\* updateConversationCategory up to the call of classifyMessage: the tag is removed
\* and the classification is started; its .then runs as ClassifyDone.
updateConversationCategory(conversationId, ps, sn, pr, lb, via) ==
    IF ~cardFound(pr, conversationId)
    THEN /\ label' = lb
         /\ UNCHANGED inflight
    ELSE /\ label' = [lb EXCEPT ![conversationId] = NoTag]
         /\ inflight' = inflight \cup
               {[id |-> conversationId,
                 text |-> messageTextOf(conversationId, ps, sn),
                 sender |-> extractSenderName(conversationId),
                 subject |-> extractSubject(conversationId),
                 via |-> via]}

\* waitForSnippetUpdateAndClassify(convId, retryCount).  n counts the poll attempts
\* of the chain and src names the caller; ps, tm, sn, pr, lb are the Map, the
\* timers and the document the call starts from.
waitForSnippetUpdateAndClassify(convId, retryCount, n, src, ps, tm, sn, pr, lb) ==
    LET o == pollOutcome(convId, retryCount, ps, sn, pr)
    IN  /\ processedSnippets' = o.ps
        /\ timers' = IF o.branch = "retry"
                     THEN tm (+) SetToBag({[id |-> convId,
                                            retry |-> retryCount + 1,
                                            polls |-> n]})
                     ELSE tm
        /\ IF o.branch \in {"changed", "timeout"}
           THEN updateConversationCategory(convId, snippetsAtDispatch(ps, o.ps),
                                           sn, pr, lb, o.branch)
           ELSE /\ label' = lb
                /\ UNCHANGED inflight
        /\ ev' = [op |-> "poll", src |-> src, id |-> convId, retry |-> retryCount,
                  polls |-> n, branch |-> o.branch, observed |-> o.observed,
                  previous |-> o.previous, committed |-> (o.ps # ps),
                  scheduled |-> (timers' # tm)]

(***************************************************************************)
(* Scans (content.js)                                                      *)
(***************************************************************************)
applyCategory(lb, id, category) == [lb EXCEPT ![id] = category]

shouldClassify_always(isInitialLoad, isUnread, isCached) == TRUE

shouldClassify_initialAll(isInitialLoad, isUnread, isCached) ==
    isInitialLoad \/ isUnread

shouldClassify_cacheFirst(isInitialLoad, isUnread, isCached) ==
    isUnread /\ ~isCached

\* let shouldClassify: set for an unread card, on the initial load and afterwards.
shouldClassify(isInitialLoad, isUnread, isCached) ==
    IF isInitialLoad THEN isUnread ELSE isUnread

\* One iteration of the loop of processMessages.  st holds the Map, the local
\* cache, the tags, the messages sent and the ids handed to classifyMessage.
processItem(messageId, isInitialLoad, st, stg, outcome) ==
    LET isUnread == unread[messageId]
        isCached == MapHas(st.cc, messageId)
        removeTag == [st EXCEPT !.lb = [st.lb EXCEPT ![messageId] = NoTag]]
        messageText == extractMessageText(snippet, messageId)
        ps1 == IF messageText # Empty
               THEN MapSet(st.ps, messageId, messageText)
               ELSE st.ps
        cc0 == IF isCached THEN MapDelete(st.cc, messageId) ELSE st.cc
        category == classifyMessage(messageText, extractSenderName(messageId),
                                    extractSubject(messageId), stg, outcome)
        cc1 == MapSet(cc0, messageId, category)
    IN  IF shouldClassify(isInitialLoad, isUnread, isCached)
        THEN [ps |-> ps1, cc |-> cc1,
              lb |-> applyCategory(st.lb, messageId, category),
              out |-> Append(st.out, updateCache(cc1)),
              classified |-> st.classified \cup {messageId}]
        ELSE IF isInitialLoad THEN removeTag
        ELSE IF isCached
        THEN [st EXCEPT !.lb = applyCategory(st.lb, messageId, st.cc[messageId])]
        ELSE removeTag

RECURSIVE scanFrom(_, _, _, _, _)
scanFrom(i, isInitialLoad, st, stg, outcome) ==
    IF i > Len(IdOrder) THEN st
    ELSE IF ~present[IdOrder[i]]
    THEN scanFrom(i + 1, isInitialLoad, st, stg, outcome)
    ELSE scanFrom(i + 1, isInitialLoad,
                  processItem(IdOrder[i], isInitialLoad, st, stg, outcome),
                  stg, outcome)

\* processMessages(isInitialLoad), run to its end: every await in it is on a
\* classifyMessage that resolves without leaving the microtask queue.
processMessages(isInitialLoad, ps, cc, lb, stg, outcome) ==
    scanFrom(1, isInitialLoad,
             [ps |-> ps, cc |-> cc, lb |-> lb, out |-> <<>>, classified |-> {}],
             stg, outcome)

(***************************************************************************)
(* Background listener (background.js)                                     *)
(***************************************************************************)
HandledActions == {"getSettings", "updateCacheEntry", "deleteCacheEntry", "clearCache"}

\* let isAsync, as the listener returns it: the branches that set it before
\* their first await.
isAsync(action) == action \in {"updateCacheEntry", "deleteCacheEntry", "clearCache"}

NoReply == [state |-> "none"]

newHandler(request) ==
    [kind |-> request.action,
     id |-> IF request.action \in {"updateCacheEntry", "deleteCacheEntry"}
            THEN request.conversationId ELSE "",
     cat |-> IF request.action = "updateCacheEntry" THEN request.category ELSE "",
     pc |-> "get",
     snap |-> EmptyMap,
     at |-> 0,
     port |-> IF isAsync(request.action) THEN "open" ELSE "closed"]

\* Handlers that may still write the record of id.
TouchesId(h, id) ==
    \/ h.kind = "clearCache"
    \/ h.kind \in {"updateCacheEntry", "deleteCacheEntry"} /\ h.id = id

\* chrome.runtime.onMessage listener, up to its return: the async body runs to
\* its first await; a port whose listener returned false is closed.  bg holds
\* the suspended handlers, the pending getSettings reply and the history.
onMessage(bg, request) ==
    [handlers |-> IF request.action \in HandledActions
                  THEN bg.handlers \cup {newHandler(request)}
                  ELSE bg.handlers,
     reply |-> IF request.action = "getSettings" /\ ~isAsync(request.action)
               THEN [state |-> "closed"]
               ELSE bg.reply,
     lastSet |-> IF request.action = "clearCache"
                 THEN EmptyMap
                 ELSE IF request.action \in {"updateCacheEntry", "deleteCacheEntry"}
                         /\ MapHas(bg.lastSet, request.conversationId)
                 THEN MapDelete(bg.lastSet, request.conversationId)
                 ELSE bg.lastSet,
     sent |-> IF request.action = "updateCache"
              THEN [has |-> TRUE, cache |-> request.cache]
              ELSE bg.sent]

RECURSIVE deliverAll(_, _)
deliverAll(bg, out) ==
    IF out = <<>> THEN bg ELSE deliverAll(onMessage(bg, Head(out)), Tail(out))

\* chrome.runtime.sendMessage for each request of out, in order: the listener
\* runs up to its return; what it awaits is a step of its own.
sendMessages(out, rp) ==
    LET bg == deliverAll([handlers |-> handlers, reply |-> rp,
                          lastSet |-> lastSet, sent |-> sent], out)
    IN  /\ Cardinality(bg.handlers) <= MaxHandlers
        /\ handlers' = bg.handlers
        /\ reply' = bg.reply
        /\ lastSet' = bg.lastSet
        /\ sent' = bg.sent

(***************************************************************************)
(* Handlers of the content script                                          *)
(***************************************************************************)
\* A task of the content script starts only when no .then of it is pending.
ContentIdle == pc = "ready" /\ inflight = {}

Bump(n) == IF n < 2 THEN n + 1 ELSE n

\* setupNotificationObserver -> handleNewMessageNotification ->
\* triggerConversationUpdate: a badge is shown on the card.
handleNewMessageNotification(id, cap) ==
    /\ present[id]
    /\ BagCardinality(timers) < cap
    /\ unread' = [unread EXCEPT ![id] = TRUE]
    /\ waitForSnippetUpdateAndClassify(id, 0, 1, "notify", processedSnippets,
                                       timers, snippet, present, label)
    /\ nDispatch' = IF pollDispatches(id, 0, processedSnippets, snippet, present)
                    THEN [nDispatch EXCEPT ![id] = Bump(@)]
                    ELSE nDispatch
    /\ UNCHANGED <<present, snippet, pc, settings, cachedClassifications,
                   sent, reply, handlers, store, now, lastSet>>

\* The notification observer runs when no .then of the script is pending.
NotificationShownUpTo(id, cap) ==
    /\ ContentIdle
    /\ handleNewMessageNotification(id, cap)

NotificationShown(id) == NotificationShownUpTo(id, MaxTimers)

\* The setTimeout callback of waitForSnippetUpdateAndClassify.
PollTimer(t) ==
    /\ ContentIdle
    /\ BagIn(t, timers)
    /\ waitForSnippetUpdateAndClassify(t.id, t.retry, t.polls + 1, "timer",
                                       processedSnippets,
                                       timers (-) SetToBag({t}),
                                       snippet, present, label)
    /\ nDispatch' = IF pollDispatches(t.id, t.retry, processedSnippets, snippet, present)
                    THEN [nDispatch EXCEPT ![t.id] = Bump(@)]
                    ELSE nDispatch
    /\ UNCHANGED <<present, snippet, unread, pc, settings, cachedClassifications,
                   sent, reply, handlers, store, now, lastSet>>

\* setupContentChangeObserver, first part: the snippet body of a card changes
\* and the observer sees the mutation.
SnippetMutated(id, t) ==
    /\ ContentIdle
    /\ present[id]
    /\ t # snippet[id]
    /\ BagCardinality(timers) < MaxTimers
    /\ snippet' = [snippet EXCEPT ![id] = t]
    /\ LET currentSnippet == Trim(t)
           previousSnippet == previousSnippetOf(processedSnippets, id)
           ps == MapSet(processedSnippets, id, currentSnippet)
       IN  IF currentSnippet # previousSnippet /\ currentSnippet # Empty
           THEN /\ waitForSnippetUpdateAndClassify(id, 0, 1, "mutation", ps,
                                                   timers, snippet', present, label)
                /\ nDispatch' = [nDispatch EXCEPT ![id] =
                                    IF pollDispatches(id, 0, ps, snippet', present)
                                    THEN 1 ELSE 0]
           ELSE /\ ev' = [op |-> "mutation", id |-> id, triggered |-> FALSE]
                /\ nDispatch' = [nDispatch EXCEPT ![id] = 0]
                /\ UNCHANGED <<processedSnippets, timers, label, inflight>>
    /\ UNCHANGED <<present, unread, pc, settings, cachedClassifications,
                   sent, reply, handlers, store, now, lastSet>>

\* The snippet of a card is rendered anew by a mutation that the content
\* observer does not match (the subtree is replaced above the snippet body).
rerenderSnippet(id, t) ==
    /\ present[id]
    /\ t # snippet[id]
    /\ snippet' = [snippet EXCEPT ![id] = t]
    /\ nDispatch' = [nDispatch EXCEPT ![id] = 0]
    /\ ev' = [op |-> "rerender", id |-> id]
    /\ UNCHANGED <<present, unread, label, pc, settings, cachedClassifications,
                   processedSnippets, timers, inflight, sent, reply, handlers,
                   store, now, lastSet>>

SnippetRerendered(id, t) ==
    /\ ContentIdle
    /\ rerenderSnippet(id, t)

\* setupContentChangeObserver, second part: a card is added to the list.
CardAdded(id, t, u) ==
    /\ ContentIdle
    /\ ~present[id]
    /\ BagCardinality(timers) < MaxTimers
    /\ present' = [present EXCEPT ![id] = TRUE]
    /\ snippet' = [snippet EXCEPT ![id] = t]
    /\ unread' = [unread EXCEPT ![id] = u]
    /\ LET currentSnippet == Trim(t)
           previousSnippet == previousSnippetOf(processedSnippets, id)
           ps == MapSet(processedSnippets, id, currentSnippet)
           lb == [label EXCEPT ![id] = NoTag]
       IN  IF currentSnippet # Empty /\ currentSnippet # previousSnippet
           THEN /\ waitForSnippetUpdateAndClassify(id, 0, 1, "added", ps,
                                                   timers, snippet', present', lb)
                /\ nDispatch' = [nDispatch EXCEPT ![id] =
                                    IF pollDispatches(id, 0, ps, snippet', present')
                                    THEN 1 ELSE 0]
           ELSE /\ ev' = [op |-> "added", id |-> id, triggered |-> FALSE]
                /\ nDispatch' = [nDispatch EXCEPT ![id] = 0]
                /\ label' = lb
                /\ UNCHANGED <<processedSnippets, timers, inflight>>
    /\ UNCHANGED <<pc, settings, cachedClassifications, sent, reply, handlers,
                   store, now, lastSet>>

\* The card leaves the document.
CardRemoved(id) ==
    /\ ContentIdle
    /\ present[id]
    /\ present' = [present EXCEPT ![id] = FALSE]
    /\ ev' = [op |-> "removed", id |-> id]
    /\ UNCHANGED <<snippet, unread, label, pc, settings, cachedClassifications,
                   processedSnippets, timers, inflight, sent, reply, handlers,
                   store, now, nDispatch, lastSet>>

\* setupReadStatusObserver -> handleMessageRead: the badge of a card is removed.
NotificationRemoved(id) ==
    /\ ContentIdle
    /\ present[id]
    /\ unread[id]
    /\ unread' = [unread EXCEPT ![id] = FALSE]
    /\ LET existingTag == label[id] # NoTag
           isInCache == MapHas(cachedClassifications, id)
           isInProcessed == MapHas(processedSnippets, id)
       IN  /\ label' = [label EXCEPT ![id] = NoTag]
           /\ cachedClassifications' = IF isInCache
                                       THEN MapDelete(cachedClassifications, id)
                                       ELSE cachedClassifications
           /\ processedSnippets' = IF isInProcessed
                                   THEN MapDelete(processedSnippets, id)
                                   ELSE processedSnippets
           /\ sendMessages(IF isInCache
                           THEN <<updateCache(cachedClassifications')>>
                           ELSE <<>>, reply)
           /\ ev' = [op |-> "read", id |-> id,
                     existingTag |-> existingTag, isInCache |-> isInCache,
                     isInProcessed |-> isInProcessed,
                     acted |-> (existingTag \/ isInCache \/ isInProcessed)]
    /\ nDispatch' = [nDispatch EXCEPT ![id] = 0]
    /\ UNCHANGED <<present, snippet, pc, settings, timers, inflight, store, now>>

\* The .then of updateConversationCategory.
ClassifyDone(p) ==
    /\ p \in inflight
    /\ \E outcome \in RemoteOutcomes :
          LET category == classifyMessage(p.text, p.sender, p.subject,
                                          settings, outcome)
          IN  /\ cachedClassifications' = MapSet(cachedClassifications, p.id, category)
              /\ label' = applyCategory(label, p.id, category)
              /\ ev' = [op |-> "classified", id |-> p.id, category |-> category,
                        text |-> p.text, via |-> p.via,
                        cachedBefore |-> IF MapHas(cachedClassifications, p.id)
                                         THEN cachedClassifications[p.id]
                                         ELSE NoTag,
                        fingerprint |-> previousSnippetOf(processedSnippets, p.id)]
    /\ sendMessages(<<updateCache(cachedClassifications')>>, reply)
    /\ inflight' = inflight \ {p}
    /\ UNCHANGED <<present, snippet, unread, pc, settings, processedSnippets,
                   timers, store, now, nDispatch>>

\* setupMessageObserver -> processMessages(): nodes were added to the list.
tagMatches_any(lb, id, category) == lb[id] # NoTag

\* tag && tag.textContent === category
tagMatches(lb, id, category) == lb[id] # NoTag /\ lb[id] = category

\* filterMessagesByCategory(category): the style.display it leaves on each card.
filterMessagesByCategory(category, pr, lb) ==
    [id \in {i \in Ids : pr[i]} |->
        IF tagMatches(lb, id, category) THEN "" ELSE "none"]

\* The categories of the keyboard shortcuts pressed.
FilterCategories == {"Job Offers", "Sales", "Other"}

\* keydown with ctrlKey and one of the shortcut keys.
FilterRequested(category) ==
    /\ ContentIdle
    /\ ev' = [op |-> "filter", category |-> category,
              display |-> filterMessagesByCategory(category, present, label)]
    /\ UNCHANGED <<present, snippet, unread, label, pc, settings,
                   cachedClassifications, processedSnippets, timers, inflight,
                   sent, reply, handlers, store, now, nDispatch, lastSet>>

MessagesProcessed ==
    /\ ContentIdle
    /\ \E outcome \in RemoteOutcomes :
          LET r == processMessages(FALSE, processedSnippets, cachedClassifications,
                                   label, settings, outcome)
          IN  /\ processedSnippets' = r.ps
              /\ cachedClassifications' = r.cc
              /\ label' = r.lb
              /\ sendMessages(r.out, reply)
              /\ ev' = [op |-> "scan", initial |-> FALSE,
                        classified |-> r.classified,
                        cacheBefore |-> cachedClassifications]
    /\ UNCHANGED <<present, snippet, unread, pc, settings, timers, inflight,
                   store, now, nDispatch>>

(***************************************************************************)
(* chrome.storage.local and Storage (lib/storage.js)                       *)
(***************************************************************************)
Epoch == InstallTime + DEFAULT_CACHE_EXPIRY_DURATION

\* Storage.getCache(): data.cachedClassifications || {}
getCache(st) ==
    IF MapHas(st, "cachedClassifications") THEN st["cachedClassifications"] ELSE EmptyMap

\* Storage.setCache(cacheObject)
setCache(st, cacheObject) == MapSet(st, "cachedClassifications", cacheObject)

\* Storage.clearCache(): one set() of the empty cache and a new expiry.
clearCache(st, t) ==
    MapSet(MapSet(st, "cachedClassifications", EmptyMap),
           "cacheExpiry", t + DEFAULT_CACHE_EXPIRY_DURATION)

\* Storage.initializeDefaults()
initializeDefaults(t) ==
    [k \in {"apiKey", "useAI", "cachedClassifications", "cacheVersion", "cacheExpiry"} |->
        CASE k = "apiKey" -> Empty
          [] k = "useAI" -> FALSE
          [] k = "cachedClassifications" -> EmptyMap
          [] k = "cacheVersion" -> CURRENT_CACHE_VERSION
          [] k = "cacheExpiry" -> t + DEFAULT_CACHE_EXPIRY_DURATION]

\* data.cacheVersion || 1.0 and data.cacheExpiry || 0
storedVersionOf(data) ==
    IF MapHas(data, "cacheVersion") /\ data["cacheVersion"] # 0
    THEN data["cacheVersion"]
    ELSE DefaultStoredVersion

cacheExpiryOf(data) ==
    IF MapHas(data, "cacheExpiry") THEN data["cacheExpiry"] ELSE 0

cacheInvalid_versionOnly(t, cacheExpiry, storedVersion) ==
    storedVersion < CURRENT_CACHE_VERSION

\* The test of Storage.validateCache.
cacheInvalid(t, cacheExpiry, storedVersion) ==
    t > cacheExpiry \/ storedVersion < CURRENT_CACHE_VERSION

(***************************************************************************)
(* Background handlers (background.js, lib/storage.js)                     *)
(***************************************************************************)
\* A message of another extension page (the popup) reaches the listener.
Requests ==
    [action : {"updateCacheEntry"}, conversationId : Ids, category : {"Sales", "Spam"}]
    \cup [action : {"deleteCacheEntry"}, conversationId : Ids]
    \cup [action : {"clearCache"}]

Request(m) ==
    /\ sendMessages(<<m>>, reply)
    /\ ev' = [op |-> "received", action |-> m.action]
    /\ UNCHANGED <<present, snippet, unread, label, pc, settings,
                   cachedClassifications, processedSnippets, timers, inflight,
                   store, now, nDispatch>>

\* getSettings: Storage.getAll() resolved; sendResponse({ settings: data }).
SendSettings(h) ==
    /\ h \in handlers
    /\ h.kind = "getSettings"
    /\ handlers' = handlers \ {h}
    /\ reply' = IF h.port = "open"
                THEN [state |-> "delivered", data |-> store]
                ELSE reply
    /\ ev' = [op |-> "sendSettings", delivered |-> (h.port = "open")]
    /\ UNCHANGED <<present, snippet, unread, label, pc, settings,
                   cachedClassifications, processedSnippets, timers, inflight,
                   sent, store, now, nDispatch, lastSet>>

\* Storage.updateCacheEntry / deleteCacheEntry: getCache() resolved.
CacheRead(h) ==
    /\ h \in handlers
    /\ h.kind \in {"updateCacheEntry", "deleteCacheEntry"}
    /\ h.pc = "get"
    /\ LET cache == getCache(store)
       IN  handlers' =
              IF h.kind = "updateCacheEntry"
              THEN (handlers \ {h}) \cup
                   {[h EXCEPT !.pc = "set", !.snap = MapSet(cache, h.id, h.cat)]}
              ELSE IF MapHas(cache, h.id)
              THEN (handlers \ {h}) \cup
                   {[h EXCEPT !.pc = "set", !.snap = MapDelete(cache, h.id)]}
              ELSE handlers \ {h}
    /\ ev' = [op |-> "cacheRead", kind |-> h.kind, id |-> h.id]
    /\ UNCHANGED <<present, snippet, unread, label, pc, settings,
                   cachedClassifications, processedSnippets, timers, inflight,
                   sent, reply, store, now, nDispatch, lastSet>>

\* Storage.updateCacheEntry / deleteCacheEntry: setCache(cache), sendResponse.
CacheWrite(h) ==
    /\ h \in handlers
    /\ h.kind \in {"updateCacheEntry", "deleteCacheEntry"}
    /\ h.pc = "set"
    /\ store' = setCache(store, h.snap)
    /\ handlers' = handlers \ {h}
    /\ lastSet' = IF h.kind = "updateCacheEntry"
                  THEN MapSet(lastSet, h.id, h.cat)
                  ELSE IF MapHas(lastSet, h.id)
                  THEN MapDelete(lastSet, h.id)
                  ELSE lastSet
    /\ ev' = [op |-> "cacheWrite", kind |-> h.kind, id |-> h.id]
    /\ UNCHANGED <<present, snippet, unread, label, pc, settings,
                   cachedClassifications, processedSnippets, timers, inflight,
                   sent, reply, now, nDispatch>>

\* clearCache: Storage.clearCache(), sendResponse.
CacheCleared(h) ==
    /\ h \in handlers
    /\ h.kind = "clearCache"
    /\ store' = clearCache(store, now)
    /\ handlers' = handlers \ {h}
    /\ lastSet' = EmptyMap
    /\ ev' = [op |-> "cleared", at |-> now,
              versionBefore |-> storedVersionOf(store)]
    /\ UNCHANGED <<present, snippet, unread, label, pc, settings,
                   cachedClassifications, processedSnippets, timers, inflight,
                   sent, reply, now, nDispatch>>

\* The popup's Clear Cache button (popup.js): one chrome.storage.local.set of
\* the empty cache.
PopupClearCache ==
    /\ store' = MapSet(store, "cachedClassifications", EmptyMap)
    /\ lastSet' = EmptyMap
    /\ ev' = [op |-> "popupCleared", at |-> now,
              versionBefore |-> storedVersionOf(store)]
    /\ UNCHANGED <<present, snippet, unread, label, pc, settings,
                   cachedClassifications, processedSnippets, timers, inflight,
                   sent, reply, handlers, now, nDispatch>>

\* Time passes.
Instants == {InstallTime, Epoch - 1, Epoch, Epoch + 1}

Tick(t) ==
    /\ t \in Instants
    /\ t > now
    /\ now' = t
    /\ ev' = [op |-> "tick"]
    /\ UNCHANGED <<present, snippet, unread, label, pc, settings,
                   cachedClassifications, processedSnippets, timers, inflight,
                   sent, reply, handlers, store, nDispatch, lastSet>>

(***************************************************************************)
(* Bootstrap of the content script (content.js)                            *)
(***************************************************************************)
\* loadSettingsAndCache(): chrome.runtime.sendMessage({ action: 'getSettings' }).
LoadSettings ==
    /\ pc = "start"
    /\ pc' = "loading"
    /\ sendMessages(<<[action |-> "getSettings"]>>, reply)
    /\ ev' = [op |-> "loadSettings"]
    /\ UNCHANGED <<present, snippet, unread, label, settings, cachedClassifications,
                   processedSnippets, timers, inflight, store, now, nDispatch>>

settingsFrom_remote(r) == [loaded |-> TRUE, useAI |-> TRUE, apiKey |-> <<"k">>]

\* The settings object and the local cache after the getSettings callback.
settingsFrom(r) ==
    IF r.state = "delivered"
    THEN [loaded |-> TRUE,
          useAI |-> MapHas(r.data, "useAI") /\ r.data["useAI"],
          apiKey |-> IF MapHas(r.data, "apiKey") THEN r.data["apiKey"] ELSE Empty]
    ELSE NoSettings

cacheFrom(r) ==
    IF r.state = "delivered" THEN getCache(r.data) ELSE EmptyMap

\* The getSettings callback, the rest of loadSettingsAndCache and its .then:
\* processMessages() and the observers.
SettingsLoaded ==
    /\ pc = "loading"
    /\ reply # NoReply
    /\ pc' = "ready"
    /\ settings' = settingsFrom(reply)
    /\ \E outcome \in RemoteOutcomes :
          LET r == processMessages(FALSE, processedSnippets, cacheFrom(reply),
                                   label, settings', outcome)
          IN  /\ processedSnippets' = r.ps
              /\ cachedClassifications' = r.cc
              /\ label' = r.lb
              /\ sendMessages(r.out, NoReply)
              /\ ev' = [op |-> "bootstrap", delivered |-> (reply.state = "delivered"),
                        loadedCache |-> cacheFrom(reply),
                        classified |-> r.classified]
    /\ UNCHANGED <<present, snippet, unread, timers, inflight, store, now, nDispatch>>

(***************************************************************************)
(* Storage.validateCache (lib/storage.js), step by step                    *)
(***************************************************************************)
validateCall ==
    [kind |-> "validateCache", id |-> "", cat |-> "", pc |-> "get",
     snap |-> EmptyMap, at |-> 0, port |-> "closed"]

\* this.get([...]) resolved; Date.now(); the test.
ValidateRead(h) ==
    /\ h \in handlers
    /\ h.kind = "validateCache"
    /\ h.pc = "get"
    /\ IF cacheInvalid(now, cacheExpiryOf(store), storedVersionOf(store))
       THEN /\ handlers' = (handlers \ {h}) \cup
                  {[h EXCEPT !.pc = "clear", !.snap = store, !.at = now]}
            /\ ev' = [op |-> "validateRead"]
       ELSE /\ handlers' = handlers \ {h}
            /\ ev' = [op |-> "validated", result |-> TRUE, before |-> store,
                      at |-> now]
    /\ UNCHANGED <<present, snippet, unread, label, pc, settings,
                   cachedClassifications, processedSnippets, timers, inflight,
                   sent, reply, store, now, nDispatch, lastSet>>

\* await this.clearCache()
ValidateClear(h) ==
    /\ h \in handlers
    /\ h.kind = "validateCache"
    /\ h.pc = "clear"
    /\ store' = clearCache(store, now)
    /\ handlers' = (handlers \ {h}) \cup {[h EXCEPT !.pc = "version"]}
    /\ ev' = [op |-> "validateClear"]
    /\ UNCHANGED <<present, snippet, unread, label, pc, settings,
                   cachedClassifications, processedSnippets, timers, inflight,
                   sent, reply, now, nDispatch, lastSet>>

\* await this.set({ cacheVersion: CURRENT_CACHE_VERSION }); return false
ValidateVersion(h) ==
    /\ h \in handlers
    /\ h.kind = "validateCache"
    /\ h.pc = "version"
    /\ store' = MapSet(store, "cacheVersion", CURRENT_CACHE_VERSION)
    /\ handlers' = handlers \ {h}
    /\ ev' = [op |-> "validated", result |-> FALSE, before |-> h.snap, at |-> h.at]
    /\ UNCHANGED <<present, snippet, unread, label, pc, settings,
                   cachedClassifications, processedSnippets, timers, inflight,
                   sent, reply, now, nDispatch, lastSet>>

(***************************************************************************)
(* Initial states and specifications                                       *)
(***************************************************************************)
\* What an earlier session may have left in chrome.storage.local.
StoredCaches ==
    {EmptyMap, [k \in {"a"} |-> "Sales"],
     [k \in {"a", "b"} |-> IF k = "a" THEN "Sales" ELSE "Other"]}

storeOf(cache, version, expiry, useAI) ==
    [k \in {"apiKey", "useAI", "cachedClassifications", "cacheVersion", "cacheExpiry"} |->
        CASE k = "apiKey" -> <<"k">>
          [] k = "useAI" -> useAI
          [] k = "cachedClassifications" -> cache
          [] k = "cacheVersion" -> version
          [] k = "cacheExpiry" -> expiry]

InitContent ==
    /\ label = [id \in Ids |-> NoTag]
    /\ pc = "start"
    /\ settings = NoSettings
    /\ cachedClassifications = EmptyMap
    /\ processedSnippets = EmptyMap
    /\ timers = EmptyBag
    /\ inflight = {}
    /\ sent = [has |-> FALSE, cache |-> EmptyMap]
    /\ reply = NoReply
    /\ ev = [op |-> "init"]
    /\ nDispatch = [id \in Ids |-> 0]
    /\ lastSet = EmptyMap

\* The pipeline over a list of two cards.
Init ==
    /\ InitContent
    /\ handlers = {}
    /\ present = [id \in Ids |-> TRUE]
    /\ snippet = [id \in Ids |-> IF id = "a" THEN TJob ELSE THi]
    /\ unread \in [Ids -> BOOLEAN]
    /\ now \in {Epoch - 1, Epoch + 1}
    /\ \E c \in StoredCaches, v \in {DefaultStoredVersion, CURRENT_CACHE_VERSION} :
          store = storeOf(c, v, Epoch, TRUE)

Next ==
    \/ LoadSettings
    \/ \E h \in handlers : SendSettings(h)
    \/ SettingsLoaded
    \/ MessagesProcessed
    \/ \E id \in Ids : NotificationRemoved(id)
    \/ \E id \in Ids, t \in RawTexts : SnippetRerendered(id, t)
    \/ \E category \in FilterCategories : FilterRequested(category)

Spec == Init /\ [][Next]_vars

\* The polling scheduler over a list of one card.
SchedIds == {"a"}

InitSched ==
    /\ InitContent
    /\ handlers = {}
    /\ present = [id \in Ids |-> id \in SchedIds]
    /\ snippet \in [Ids -> {Blank}]
    /\ unread = [id \in Ids |-> FALSE]
    /\ now = Epoch - 1
    /\ store = storeOf([k \in {"a"} |-> "Sales"], CURRENT_CACHE_VERSION, Epoch, TRUE)

NextSched ==
    \/ LoadSettings
    \/ \E h \in handlers : SendSettings(h)
    \/ SettingsLoaded
    \/ \E id \in SchedIds : NotificationShown(id)
    \/ \E t \in BagToSet(timers) : PollTimer(t)
    \/ \E id \in SchedIds, t \in RawTexts : SnippetMutated(id, t)
    \/ \E id \in SchedIds, t \in RawTexts : SnippetRerendered(id, t)
    \/ \E id \in SchedIds, t \in RawTexts, u \in BOOLEAN : CardAdded(id, t, u)
    \/ \E id \in SchedIds : CardRemoved(id)
    \/ \E id \in SchedIds : NotificationRemoved(id)
    \/ \E p \in inflight : ClassifyDone(p)
    \/ MessagesProcessed

SpecSched == InitSched /\ [][NextSched]_vars

\* The background listener and the store under concurrent requests.
InitStore ==
    /\ InitContent
    /\ handlers = {}
    /\ present = [id \in Ids |-> FALSE]
    /\ snippet = [id \in Ids |-> Blank]
    /\ unread = [id \in Ids |-> FALSE]
    /\ now \in {InstallTime, Epoch - 1}
    /\ store = initializeDefaults(InstallTime)

NextStore ==
    \/ \E m \in Requests : Request(m)
    \/ \E h \in handlers : CacheRead(h)
    \/ \E h \in handlers : CacheWrite(h)
    \/ \E h \in handlers : CacheCleared(h)
    \/ PopupClearCache

SpecStore == InitStore /\ [][NextStore]_vars

\* Storage.validateCache over the stores an installation can hold.
epochStore(cache, hasVersion, version, hasExpiry) ==
    [k \in {"cachedClassifications"}
           \cup (IF hasVersion THEN {"cacheVersion"} ELSE {})
           \cup (IF hasExpiry THEN {"cacheExpiry"} ELSE {}) |->
        CASE k = "cachedClassifications" -> cache
          [] k = "cacheVersion" -> version
          [] k = "cacheExpiry" -> Epoch]

InitValidate ==
    /\ InitContent
    /\ handlers = {validateCall}
    /\ present = [id \in Ids |-> FALSE]
    /\ snippet = [id \in Ids |-> Blank]
    /\ unread = [id \in Ids |-> FALSE]
    /\ now \in {Epoch - 1, Epoch, Epoch + 1}
    /\ \E c \in StoredCaches, hasVersion \in BOOLEAN, hasExpiry \in BOOLEAN,
          v \in {DefaultStoredVersion, CURRENT_CACHE_VERSION, CURRENT_CACHE_VERSION + 1} :
          store = epochStore(c, hasVersion, v, hasExpiry)

NextValidate ==
    \/ \E h \in handlers : ValidateRead(h)
    \/ \E h \in handlers : ValidateClear(h)
    \/ \E h \in handlers : ValidateVersion(h)
    \/ \E t \in Instants : Tick(t)

SpecValidate == InitValidate /\ [][NextValidate]_vars

(***************************************************************************)
(* Properties of the polling scheduler (SpecSched)                         *)
(***************************************************************************)
(* The initial scan (content.js 27-51, 410-508)                            *)
(***************************************************************************)
\* The end of the DOMContentLoaded handler: processMessages(true), run over the
\* local cache that loadSettingsAndCache left.
InitialScan ==
    /\ pc = "dom"
    /\ pc' = "ready"
    /\ \E outcome \in RemoteOutcomes :
          LET r == processMessages(TRUE, processedSnippets, cachedClassifications,
                                   label, settings, outcome)
          IN  /\ processedSnippets' = r.ps
              /\ cachedClassifications' = r.cc
              /\ label' = r.lb
              /\ sendMessages(r.out, reply)
              /\ ev' = [op |-> "initial", initial |-> TRUE,
                        classified |-> r.classified,
                        cacheBefore |-> cachedClassifications,
                        labelBefore |-> label]
    /\ UNCHANGED <<present, snippet, unread, settings, timers, inflight,
                   store, now, nDispatch>>

\* processMessages(true) as a function of the list, of the tags a previous run
\* of the script left and of the local cache of a previous session.
InitInitial ==
    /\ label \in [Ids -> {NoTag, "Sales"}]
    /\ pc = "dom"
    /\ settings = NoSettings
    /\ cachedClassifications \in StoredCaches
    /\ processedSnippets = EmptyMap
    /\ timers = EmptyBag
    /\ inflight = {}
    /\ sent = [has |-> FALSE, cache |-> EmptyMap]
    /\ reply = NoReply
    /\ ev = [op |-> "init"]
    /\ nDispatch = [id \in Ids |-> 0]
    /\ lastSet = EmptyMap
    /\ handlers = {}
    /\ present = [id \in Ids |-> TRUE]
    /\ snippet = [id \in Ids |-> IF id = "a" THEN TJob ELSE THi]
    /\ unread \in [Ids -> BOOLEAN]
    /\ now = Epoch - 1
    /\ store = storeOf(cachedClassifications, CURRENT_CACHE_VERSION, Epoch, FALSE)

NextInitial ==
    \/ InitialScan
    \/ MessagesProcessed
    \/ \E id \in Ids : NotificationRemoved(id)
    \/ \E id \in Ids, t \in RawTexts : SnippetRerendered(id, t)

SpecInitial == InitInitial /\ [][NextInitial]_vars

(***************************************************************************)
(* The classifiers as functions of their inputs                            *)
(* (content.js 529-611, LocalClassifier)                                   *)
(***************************************************************************)
TJobBuyDemo == <<"J", "o", "b", " ", "b", "u", "y", " ", "d", "e", "m", "o">>
TIntroduction == <<"I", "n", "t", "r", "o", "d", "u", "c", "t", "i", "o", "n">>
TJobCareer == <<"j", "o", "b", " ", "c", "a", "r", "e", "e", "r">>
TMeetFree == <<"m", "e", "e", "t", " ", "f", "r", "e", "e", " ", "g", "i", "f", "t">>

\* Message texts handed to the classifiers.
ClassifyTexts == RawTexts \cup {TJobBuyDemo, TIntroduction, TJobCareer, TMeetFree}

\* The settings object classifyMessage reads: {} or a stored record.
ClassifySettings ==
    {NoSettings} \cup
    { [loaded |-> TRUE, useAI |-> u, apiKey |-> k] :
         u \in BOOLEAN, k \in {Empty, <<"k">>} }

\* this.keywords of LocalClassifier: the lists, and their elements, in the
\* order they are declared.
LocalCategories == <<"Job Offers", "Networking", "Sales", "Spam">>

keywords(category) ==
    CASE category = "Job Offers" ->
           << <<"j", "o", "b">>,
             <<"p", "o", "s", "i", "t", "i", "o", "n">>,
             <<"o", "p", "p", "o", "r", "t", "u", "n", "i", "t", "y">>,
             <<"h", "i", "r", "i", "n", "g">>,
             <<"r", "e", "c", "r", "u", "i", "t", "e", "r">>,
             <<"c", "a", "r", "e", "e", "r">>,
             <<"e", "m", "p", "l", "o", "y", "m", "e", "n", "t">>,
             <<"r", "o", "l", "e">>,
             <<"o", "p", "e", "n", "i", "n", "g">>,
             <<"v", "a", "c", "a", "n", "c", "y">>,
             <<"i", "n", "t", "e", "r", "v", "i", "e", "w">>,
             <<"a", "p", "p", "l", "i", "c", "a", "t", "i", "o", "n">>,
             <<"a", "p", "p", "l", "i", "c", "a", "n", "t">>,
             <<"r", "e", "s", "u", "m", "e">>,
             <<"c", "v">> >>
      [] category = "Networking" ->
           << <<"c", "o", "n", "n", "e", "c", "t">>,
             <<"n", "e", "t", "w", "o", "r", "k">>,
             <<"i", "n", "t", "r", "o", "d", "u", "c", "t", "i", "o", "n">>,
             <<"m", "e", "e", "t">>,
             <<"c", "o", "f", "f", "e", "e">>,
             <<"c", "h", "a", "t">>,
             <<"c", "a", "t", "c", "h", " ", "u", "p">>,
             <<"i", "n", "t", "r", "o", "d", "u", "c", "t", "i", "o", "n">>,
             <<"r", "e", "f", "e", "r", "r", "e", "d">>,
             <<"m", "u", "t", "u", "a", "l">>,
             <<"k", "n", "o", "w", " ", "e", "a", "c", "h", " ", "o", "t", "h", "e", "r">>,
             <<"c", "o", "n", "n", "e", "c", "t", "i", "o", "n">>,
             <<"g", "r", "o", "u", "p">>,
             <<"c", "o", "m", "m", "u", "n", "i", "t", "y">> >>
      [] category = "Sales" ->
           << <<"b", "u", "y">>,
             <<"d", "e", "m", "o">>,
             <<"p", "r", "o", "d", "u", "c", "t">>,
             <<"s", "e", "r", "v", "i", "c", "e">>,
             <<"o", "f", "f", "e", "r">>,
             <<"s", "a", "l", "e">>,
             <<"d", "i", "s", "c", "o", "u", "n", "t">>,
             <<"p", "r", "i", "c", "e">>,
             <<"q", "u", "o", "t", "e">>,
             <<"s", "o", "l", "u", "t", "i", "o", "n">>,
             <<"i", "m", "p", "l", "e", "m", "e", "n", "t">>,
             <<"p", "u", "r", "c", "h", "a", "s", "e">>,
             <<"i", "n", "v", "e", "s", "t">>,
             <<"r", "o", "i">>,
             <<"c", "o", "s", "t">>,
             <<"s", "u", "b", "s", "c", "r", "i", "p", "t", "i", "o", "n">> >>
      [] category = "Spam" ->
           << <<"c", "o", "n", "g", "r", "a", "t", "u", "l", "a", "t", "i", "o", "n">>,
             <<"l", "o", "t", "t", "e", "r", "y">>,
             <<"w", "i", "n", "n", "e", "r">>,
             <<"g", "i", "f", "t">>,
             <<"f", "r", "e", "e">>,
             <<"u", "r", "g", "e", "n", "t">>,
             <<"l", "i", "m", "i", "t", "e", "d", " ", "t", "i", "m", "e">>,
             <<"e", "x", "c", "l", "u", "s", "i", "v", "e", " ", "o", "f", "f", "e", "r">>,
             <<"g", "u", "a", "r", "a", "n", "t", "e", "e", "d">>,
             <<"m", "i", "l", "l", "i", "o", "n", "s">>,
             <<"i", "n", "v", "e", "s", "t", "m", "e", "n", "t", " ", "o", "p", "p", "o", "r", "t", "u", "n", "i", "t", "y">>,
             <<"q", "u", "i", "c", "k", " ", "m", "o", "n", "e", "y">> >>

\* The inner loop of classify: +1 for every element of words the text includes.
RECURSIVE scoreOf(_, _)
scoreOf(normalizedText, words) ==
    IF words = <<>> THEN 0
    ELSE (IF Includes(normalizedText, Head(words)) THEN 1 ELSE 0)
         + scoreOf(normalizedText, Tail(words))

scores(normalizedText) ==
    [i \in 1..Len(LocalCategories) |-> scoreOf(normalizedText, keywords(LocalCategories[i]))]

\* The second loop of classify: a category replaces the best one only with a
\* strictly higher score.
RECURSIVE bestFrom(_, _, _)
bestFrom(i, sc, best) ==
    IF i > Len(LocalCategories) THEN best
    ELSE IF sc[i] > best.maxScore
         THEN bestFrom(i + 1, sc, [maxScore |-> sc[i], bestCategory |-> LocalCategories[i]])
         ELSE bestFrom(i + 1, sc, best)

\* LocalClassifier.classify(text)
classify(text) ==
    LET sc == scores(ToLowerCase(text))
        best == bestFrom(1, sc, [maxScore |-> 0, bestCategory |-> "Other"])
    IN  IF best.maxScore < LocalThreshold THEN "Other" ELSE best.bestCategory

\* classifyMessage(text, sender, subject) called with the settings at hand and
\* the endpoint behaving as outcome.
ClassifyMessageCalled(text, outcome) ==
    /\ pc = "classify"
    /\ LET sender == extractSenderName("a")
           subject == extractSubject("a")
           fullText == fullTextOf(text, sender, subject)
       IN  ev' = [op |-> "classifyMessage", text |-> text, fullText |-> fullText,
                  outcome |-> outcome,
                  local |-> localRules(fullText),
                  requested |-> classifyMessageRun(text, sender, subject, settings,
                                                  outcome).requested,
                  remote |-> classifyWithOpenAI(fullText, outcome),
                  result |-> classifyMessage(text, sender, subject, settings, outcome)]
    /\ UNCHANGED <<present, snippet, unread, label, pc, settings,
                   cachedClassifications, processedSnippets, timers, inflight,
                   sent, reply, handlers, store, now, nDispatch, lastSet>>

\* new LocalClassifier().classify(text)
LocalClassifierCalled(text) ==
    /\ pc = "classify"
    /\ ev' = [op |-> "classify", text |-> text,
              scores |-> scores(ToLowerCase(text)),
              result |-> classify(text)]
    /\ UNCHANGED <<present, snippet, unread, label, pc, settings,
                   cachedClassifications, processedSnippets, timers, inflight,
                   sent, reply, handlers, store, now, nDispatch, lastSet>>

InitClassify ==
    /\ label = [id \in Ids |-> NoTag]
    /\ pc = "classify"
    /\ settings \in ClassifySettings
    /\ cachedClassifications = EmptyMap
    /\ processedSnippets = EmptyMap
    /\ timers = EmptyBag
    /\ inflight = {}
    /\ sent = [has |-> FALSE, cache |-> EmptyMap]
    /\ reply = NoReply
    /\ ev = [op |-> "init"]
    /\ nDispatch = [id \in Ids |-> 0]
    /\ lastSet = EmptyMap
    /\ handlers = {}
    /\ present = [id \in Ids |-> TRUE]
    /\ snippet = [id \in Ids |-> Blank]
    /\ unread = [id \in Ids |-> FALSE]
    /\ now = Epoch - 1
    /\ store = storeOf(EmptyMap, CURRENT_CACHE_VERSION, Epoch, FALSE)

NextClassify ==
    \/ \E text \in ClassifyTexts, outcome \in RemoteOutcomes :
          ClassifyMessageCalled(text, outcome)
    \/ \E text \in ClassifyTexts : LocalClassifierCalled(text)

SpecClassify == InitClassify /\ [][NextClassify]_vars

(***************************************************************************)
(* A scan whose classifyMessage awaits the remote endpoint                 *)
(* (content.js 410-508, 559-611)                                           *)
(***************************************************************************)
\* The outcome argument of a classifyMessage that makes no request.
Unasked == [kind |-> "unasked"]

\* The loop of processMessages(false) from item i, up to the classifyMessage
\* that awaits fetch (await is the index of its item) or to the end of the
\* list (await is 0).  The item that awaits has stored its snippet and cleared
\* its cache entry.
RECURSIVE scanToAwait(_, _, _)
scanToAwait(i, st, stg) ==
    IF i > Len(IdOrder) THEN [st |-> st, await |-> 0]
    ELSE IF ~present[IdOrder[i]] THEN scanToAwait(i + 1, st, stg)
    ELSE LET messageId == IdOrder[i]
             messageText == extractMessageText(snippet, messageId)
         IN  IF /\ shouldClassify(FALSE, unread[messageId], MapHas(st.cc, messageId))
                /\ takesRemotePath(messageText, extractSenderName(messageId),
                                   extractSubject(messageId), stg)
             THEN [st |-> [st EXCEPT
                             !.ps = IF messageText # Empty
                                    THEN MapSet(@, messageId, messageText) ELSE @,
                             !.cc = IF MapHas(@, messageId)
                                    THEN MapDelete(@, messageId) ELSE @],
                   await |-> i]
             ELSE scanToAwait(i + 1, processItem(messageId, FALSE, st, stg, Unasked), stg)

\* The rest of the loop body once classifyMessage resolved to category.
resumeItem(messageId, st, category) ==
    [ps |-> st.ps,
     cc |-> MapSet(st.cc, messageId, category),
     lb |-> applyCategory(st.lb, messageId, category),
     out |-> Append(st.out, updateCache(MapSet(st.cc, messageId, category))),
     classified |-> st.classified \cup {messageId}]

\* What a stretch of the scan leaves: the variables it wrote and the call it
\* is suspended on.
scanLeaves(r, op) ==
    /\ processedSnippets' = r.st.ps
    /\ cachedClassifications' = r.st.cc
    /\ label' = r.st.lb
    /\ sendMessages(r.st.out, reply)
    /\ inflight' = IF r.await = 0 THEN {}
                   ELSE {[id |-> IdOrder[r.await],
                          text |-> extractMessageText(snippet, IdOrder[r.await]),
                          sender |-> extractSenderName(IdOrder[r.await]),
                          subject |-> extractSubject(IdOrder[r.await]),
                          via |-> "scan",
                          index |-> r.await]}
    /\ ev' = op

\* processMessages() called by a timer or an observer.
ScanStarted ==
    /\ ContentIdle
    /\ \E r \in {scanToAwait(1, [ps |-> processedSnippets, cc |-> cachedClassifications,
                                   lb |-> label, out |-> <<>>, classified |-> {}],
                               settings)} :
          scanLeaves(r, [op |-> "scanStarted", await |-> r.await])
    /\ UNCHANGED <<present, snippet, unread, pc, settings, timers, store, now,
                   nDispatch>>

\* The endpoint settles the pending fetch: classifyWithOpenAI and
\* classifyMessage return and the loop goes on.  Nothing in the script ends
\* the wait: fetch is called without a signal and without a timer.
RemoteResponded(p, outcome) ==
    /\ p \in inflight
    /\ p.via = "scan"
    /\ LET category == classifyMessage(p.text, p.sender, p.subject, settings, outcome)
           st == resumeItem(p.id, [ps |-> processedSnippets,
                                   cc |-> cachedClassifications,
                                   lb |-> label, out |-> <<>>, classified |-> {}],
                            category)
           r == scanToAwait(p.index + 1, st, settings)
       IN  scanLeaves(r, [op |-> "remoteResponded", id |-> p.id,
                          outcome |-> outcome, category |-> category,
                          await |-> r.await])
    /\ UNCHANGED <<present, snippet, unread, pc, settings, timers, store, now,
                   nDispatch>>

\* The content script with settings that enable the remote classifier.
InitRemote ==
    /\ label = [id \in Ids |-> NoTag]
    /\ pc = "ready"
    /\ settings \in {NoSettings, [loaded |-> TRUE, useAI |-> TRUE, apiKey |-> <<"k">>]}
    /\ cachedClassifications = EmptyMap
    /\ processedSnippets = EmptyMap
    /\ timers = EmptyBag
    /\ inflight = {}
    /\ sent = [has |-> FALSE, cache |-> EmptyMap]
    /\ reply = NoReply
    /\ ev = [op |-> "init"]
    /\ nDispatch = [id \in Ids |-> 0]
    /\ lastSet = EmptyMap
    /\ handlers = {}
    /\ present = [id \in Ids |-> TRUE]
    /\ snippet \in [Ids -> {THi, TJob}]
    /\ unread \in [Ids -> BOOLEAN]
    /\ now = Epoch - 1
    /\ store = storeOf(EmptyMap, CURRENT_CACHE_VERSION, Epoch, TRUE)

NextRemote ==
    \/ ScanStarted
    \/ \E p \in inflight, outcome \in RemoteOutcomes : RemoteResponded(p, outcome)
    \/ \E id \in Ids : NotificationRemoved(id)
    \/ \E id \in Ids, t \in RawTexts : SnippetRerendered(id, t)

\* The script's own steps are taken when they can be; the endpoint owes
\* nothing.
SpecRemote == InitRemote /\ [][NextRemote]_vars /\ WF_vars(ScanStarted)

(***************************************************************************)
(* Polling chains of one card (content.js 162-234)                         *)
(***************************************************************************)
\* The content script after its bootstrap, the card already in the list.
InitChains ==
    /\ label = [id \in Ids |-> NoTag]
    /\ pc = "ready"
    /\ settings = NoSettings
    /\ cachedClassifications = EmptyMap
    /\ processedSnippets = EmptyMap
    /\ timers = EmptyBag
    /\ inflight = {}
    /\ sent = [has |-> FALSE, cache |-> EmptyMap]
    /\ reply = NoReply
    /\ ev = [op |-> "init"]
    /\ nDispatch = [id \in Ids |-> 0]
    /\ lastSet = EmptyMap
    /\ handlers = {}
    /\ present = [id \in Ids |-> id \in SchedIds]
    /\ snippet \in [Ids -> {Blank}]
    /\ unread = [id \in Ids |-> FALSE]
    /\ now = Epoch - 1
    /\ store = storeOf(EmptyMap, CURRENT_CACHE_VERSION, Epoch, FALSE)

NextChains ==
    \/ \E id \in SchedIds : NotificationShownUpTo(id, MaxChains)
    \/ \E t \in BagToSet(timers) : PollTimer(t)
    \/ \E id \in SchedIds, t \in {Blank, THi} : SnippetRerendered(id, t)
    \/ \E p \in inflight : ClassifyDone(p)

SpecChains == InitChains /\ [][NextChains]_vars

(***************************************************************************)
(* Cache entries when chrome.storage.local fails (lib/storage.js 27-116)   *)
(***************************************************************************)
\* Storage.updateCacheEntry / deleteCacheEntry: this.get rejected, the catch of
\* getCache() returned {}.
CacheReadFailed(h) ==
    /\ h \in handlers
    /\ h.kind \in {"updateCacheEntry", "deleteCacheEntry"}
    /\ h.pc = "get"
    /\ LET cache == EmptyMap
       IN  handlers' =
              IF h.kind = "updateCacheEntry"
              THEN (handlers \ {h}) \cup
                   {[h EXCEPT !.pc = "set", !.snap = MapSet(cache, h.id, h.cat)]}
              ELSE IF MapHas(cache, h.id)
              THEN (handlers \ {h}) \cup
                   {[h EXCEPT !.pc = "set", !.snap = MapDelete(cache, h.id)]}
              ELSE handlers \ {h}
    /\ ev' = [op |-> "cacheReadFailed", kind |-> h.kind, id |-> h.id, cat |-> h.cat]
    /\ UNCHANGED <<present, snippet, unread, label, pc, settings,
                   cachedClassifications, processedSnippets, timers, inflight,
                   sent, reply, store, now, nDispatch, lastSet>>

\* Storage.updateCacheEntry / deleteCacheEntry: setCache(cache) caught the
\* error of chrome.storage.local.set; the handler goes on to sendResponse.
CacheWriteFailed(h) ==
    /\ h \in handlers
    /\ h.kind \in {"updateCacheEntry", "deleteCacheEntry"}
    /\ h.pc = "set"
    /\ handlers' = handlers \ {h}
    /\ lastSet' = IF h.kind = "updateCacheEntry"
                  THEN MapSet(lastSet, h.id, h.cat)
                  ELSE IF MapHas(lastSet, h.id)
                  THEN MapDelete(lastSet, h.id)
                  ELSE lastSet
    /\ ev' = [op |-> "cacheWriteFailed", kind |-> h.kind, id |-> h.id]
    /\ UNCHANGED <<present, snippet, unread, label, pc, settings,
                   cachedClassifications, processedSnippets, timers, inflight,
                   sent, reply, store, now, nDispatch>>

\* The background over a store that an earlier session left, valid or stale.
InitDegraded ==
    /\ InitContent
    /\ handlers = {}
    /\ present = [id \in Ids |-> FALSE]
    /\ snippet = [id \in Ids |-> Blank]
    /\ unread = [id \in Ids |-> FALSE]
    /\ now \in {Epoch - 1, Epoch + 1}
    /\ \E c \in StoredCaches, v \in {DefaultStoredVersion, CURRENT_CACHE_VERSION} :
          store = storeOf(c, v, Epoch, FALSE)

\* The requests are those that touch one entry, with a category the store does
\* not hold.
NextDegraded ==
    \/ \E m \in {r \in Requests :
                    /\ r.action # "clearCache"
                    /\ r.action = "updateCacheEntry" => r.category = "Spam"} :
          Request(m)
    \/ \E h \in handlers : CacheRead(h)
    \/ \E h \in handlers : CacheReadFailed(h)
    \/ \E h \in handlers : CacheWrite(h)
    \/ \E h \in handlers : CacheWriteFailed(h)

SpecDegraded == InitDegraded /\ [][NextDegraded]_vars

(***************************************************************************)
(* Storage.validateCache when chrome.storage.local fails                   *)
(* (lib/storage.js 123-134, 160-182)                                       *)
(***************************************************************************)
\* this.get([...]) rejected: control passes to the catch block.
ValidateReadFailed(h) ==
    /\ h \in handlers
    /\ h.kind = "validateCache"
    /\ h.pc = "get"
    /\ handlers' = (handlers \ {h}) \cup {[h EXCEPT !.pc = "catchClear", !.at = now]}
    /\ ev' = [op |-> "validateReadFailed"]
    /\ UNCHANGED <<present, snippet, unread, label, pc, settings,
                   cachedClassifications, processedSnippets, timers, inflight,
                   sent, reply, store, now, nDispatch, lastSet>>

\* await this.clearCache() in the try block: its set rejected, clearCache
\* caught the error and resolved.
ValidateClearFailed(h) ==
    /\ h \in handlers
    /\ h.kind = "validateCache"
    /\ h.pc = "clear"
    /\ handlers' = (handlers \ {h}) \cup {[h EXCEPT !.pc = "version"]}
    /\ ev' = [op |-> "validateClearFailed"]
    /\ UNCHANGED <<present, snippet, unread, label, pc, settings,
                   cachedClassifications, processedSnippets, timers, inflight,
                   sent, reply, store, now, nDispatch, lastSet>>

\* await this.set({ cacheVersion }) in the try block rejected: control passes
\* to the catch block.
ValidateVersionFailed(h) ==
    /\ h \in handlers
    /\ h.kind = "validateCache"
    /\ h.pc = "version"
    /\ handlers' = (handlers \ {h}) \cup {[h EXCEPT !.pc = "catchClear"]}
    /\ ev' = [op |-> "validateVersionFailed"]
    /\ UNCHANGED <<present, snippet, unread, label, pc, settings,
                   cachedClassifications, processedSnippets, timers, inflight,
                   sent, reply, store, now, nDispatch, lastSet>>

\* await this.clearCache() in the catch block; ok is whether its set succeeded.
ValidateCatchClear(h, ok) ==
    /\ h \in handlers
    /\ h.kind = "validateCache"
    /\ h.pc = "catchClear"
    /\ store' = IF ok THEN clearCache(store, now) ELSE store
    /\ handlers' = (handlers \ {h}) \cup {[h EXCEPT !.pc = "catchVersion"]}
    /\ ev' = [op |-> "validateCatchClear", ok |-> ok]
    /\ UNCHANGED <<present, snippet, unread, label, pc, settings,
                   cachedClassifications, processedSnippets, timers, inflight,
                   sent, reply, now, nDispatch, lastSet>>

\* await this.set({ cacheVersion }) in the catch block, then return false; when
\* the set rejects nothing catches it and the promise of validateCache rejects.
ValidateCatchVersion(h, ok) ==
    /\ h \in handlers
    /\ h.kind = "validateCache"
    /\ h.pc = "catchVersion"
    /\ store' = IF ok THEN MapSet(store, "cacheVersion", CURRENT_CACHE_VERSION)
                ELSE store
    /\ handlers' = handlers \ {h}
    /\ ev' = IF ok
             THEN [op |-> "validated", result |-> FALSE, before |-> h.snap, at |-> h.at]
             ELSE [op |-> "validateRejected", before |-> h.snap, at |-> h.at]
    /\ UNCHANGED <<present, snippet, unread, label, pc, settings,
                   cachedClassifications, processedSnippets, timers, inflight,
                   sent, reply, now, nDispatch, lastSet>>

NextValidateDegraded ==
    \/ \E h \in handlers : ValidateRead(h)
    \/ \E h \in handlers : ValidateReadFailed(h)
    \/ \E h \in handlers : ValidateClear(h)
    \/ \E h \in handlers : ValidateClearFailed(h)
    \/ \E h \in handlers : ValidateVersion(h)
    \/ \E h \in handlers : ValidateVersionFailed(h)
    \/ \E h \in handlers, ok \in BOOLEAN : ValidateCatchClear(h, ok)
    \/ \E h \in handlers, ok \in BOOLEAN : ValidateCatchVersion(h, ok)

SpecValidateDegraded == InitValidate /\ [][NextValidateDegraded]_vars

(***************************************************************************)
(* The running content script and the popup's Clear Cache                  *)
(* (content.js 236-508, popup.js 51-66)                                    *)
(***************************************************************************)
\* The content script after its bootstrap; the store holds what an earlier
\* session left.
InitClear ==
    /\ label = [id \in Ids |-> NoTag]
    /\ pc = "ready"
    /\ settings = NoSettings
    /\ cachedClassifications = EmptyMap
    /\ processedSnippets = EmptyMap
    /\ timers = EmptyBag
    /\ inflight = {}
    /\ sent = [has |-> FALSE, cache |-> EmptyMap]
    /\ reply = NoReply
    /\ ev = [op |-> "init"]
    /\ nDispatch = [id \in Ids |-> 0]
    /\ lastSet = EmptyMap
    /\ handlers = {}
    /\ present = [id \in Ids |-> id \in SchedIds]
    /\ snippet \in [Ids -> {Blank}]
    /\ unread = [id \in Ids |-> FALSE]
    /\ now = Epoch - 1
    /\ store = storeOf([k \in {"a"} |-> "Sales"], CURRENT_CACHE_VERSION, Epoch, FALSE)

NextClear ==
    \/ \E id \in SchedIds, t \in RawTexts, u \in BOOLEAN : CardAdded(id, t, u)
    \/ \E id \in SchedIds : CardRemoved(id)
    \/ \E t \in BagToSet(timers) : PollTimer(t)
    \/ \E p \in inflight : ClassifyDone(p)
    \/ MessagesProcessed
    \/ PopupClearCache

SpecClear == InitClear /\ [][NextClear]_vars

(***************************************************************************)
(* The message observer and the tags the scan inserts                      *)
(* (content.js 381-508, 613-658)                                           *)
(***************************************************************************)
\* The callback of the message observer: a mutation record with added nodes
\* makes it call processMessages(); the tags that scan appends are added nodes
\* again, and their records are delivered to the same callback as soon as the
\* script's current job ends (pc = "observed").  appended is the set of cards
\* for which processMessages() calls applyCategory: the unread ones and the
\* read ones that have a cache entry.
observedScan(trigger) ==
    /\ inflight = {}
    /\ \E outcome \in RemoteOutcomes :
          LET r == processMessages(FALSE, processedSnippets, cachedClassifications,
                                   label, settings, outcome)
              appended == {id \in Ids : present[id] /\ (unread[id]
                                 \/ MapHas(cachedClassifications, id))}
          IN  /\ processedSnippets' = r.ps
              /\ cachedClassifications' = r.cc
              /\ label' = r.lb
              /\ sendMessages(r.out, reply)
              /\ pc' = IF appended # {} THEN "observed" ELSE "ready"
              /\ ev' = [op |-> "scan", initial |-> FALSE, trigger |-> trigger,
                        classified |-> r.classified, appended |-> appended]
    /\ UNCHANGED <<present, snippet, unread, settings, timers, inflight,
                   store, now, nDispatch>>

\* The document adds nodes to the conversation list.
ListChanged ==
    /\ pc = "ready"
    /\ observedScan("document")

\* The records of the tags the last scan appended reach the callback.
ObserverCallback ==
    /\ pc = "observed"
    /\ observedScan("applyCategory")

InitObserver ==
    /\ label = [id \in Ids |-> NoTag]
    /\ pc = "ready"
    /\ settings = NoSettings
    /\ cachedClassifications = EmptyMap
    /\ processedSnippets = EmptyMap
    /\ timers = EmptyBag
    /\ inflight = {}
    /\ sent = [has |-> FALSE, cache |-> EmptyMap]
    /\ reply = NoReply
    /\ ev = [op |-> "init"]
    /\ nDispatch = [id \in Ids |-> 0]
    /\ lastSet = EmptyMap
    /\ handlers = {}
    /\ present = [id \in Ids |-> TRUE]
    /\ snippet \in [Ids -> {THi, TJob}]
    /\ unread \in [Ids -> BOOLEAN]
    /\ now = Epoch - 1
    /\ store = storeOf(EmptyMap, CURRENT_CACHE_VERSION, Epoch, FALSE)

NextObserver ==
    \/ ListChanged
    \/ ObserverCallback
    \/ \E id \in Ids : NotificationRemoved(id)
    \/ \E id \in Ids, t \in RawTexts : SnippetRerendered(id, t)

SpecObserver == InitObserver /\ [][NextObserver]_vars

(***************************************************************************)
(* Classifications of one card that wait for the remote endpoint           *)
(* (content.js 162-234, 344-379, 559-611)                                  *)
(***************************************************************************)
\* The .then of p waits for fetch: classifyMessage went to classifyWithOpenAI.
awaitsFetch(p) == takesRemotePath(p.text, p.sender, p.subject, settings)

\* A task of the content script starts while fetches are pending, but after
\* every .then that needs no fetch.
ContentAwaiting == pc = "ready" /\ \A p \in inflight : awaitsFetch(p)

NotificationShownAwaiting(id) ==
    /\ ContentAwaiting
    /\ handleNewMessageNotification(id, MaxTimers)

SnippetRerenderedAwaiting(id, t) ==
    /\ ContentAwaiting
    /\ rerenderSnippet(id, t)

\* The content script after a bootstrap that delivered settings with useAI and
\* an API key, the card already in the list.
InitRace ==
    /\ label = [id \in Ids |-> NoTag]
    /\ pc = "ready"
    /\ settings = [loaded |-> TRUE, useAI |-> TRUE, apiKey |-> <<"k">>]
    /\ cachedClassifications = EmptyMap
    /\ processedSnippets = EmptyMap
    /\ timers = EmptyBag
    /\ inflight = {}
    /\ sent = [has |-> FALSE, cache |-> EmptyMap]
    /\ reply = NoReply
    /\ ev = [op |-> "init"]
    /\ nDispatch = [id \in Ids |-> 0]
    /\ lastSet = EmptyMap
    /\ handlers = {}
    /\ present = [id \in Ids |-> id \in SchedIds]
    /\ snippet \in [Ids -> {Blank}]
    /\ unread = [id \in Ids |-> FALSE]
    /\ now = Epoch - 1
    /\ store = storeOf(EmptyMap, CURRENT_CACHE_VERSION, Epoch, TRUE)

NextRace ==
    \/ \E id \in SchedIds : NotificationShownAwaiting(id)
    \/ \E id \in SchedIds, t \in RawTexts : SnippetRerenderedAwaiting(id, t)
    \/ \E t \in BagToSet(timers) : PollTimer(t)
    \/ \E p \in inflight :
          \* the .then runs at once when classifyMessage needed no fetch, else
          \* once fetch has settled
          /\ awaitsFetch(p) => ContentAwaiting
          /\ ClassifyDone(p)

SpecRace == InitRace /\ [][NextRace]_vars

(***************************************************************************)
PollDispatched == ev.op = "poll" /\ ev.branch \in {"changed", "timeout"}

\* C1: scheduler termination.  A chain of polls that never sees a meaningful
\* change on a card that stays in the document retries only while its counter is
\* below MAX_SNIPPET_CHECK_RETRIES, so the counter never exceeds it; the poll
\* with counter MAX_SNIPPET_CHECK_RETRIES is the chain's poll number
\* MAX_SNIPPET_CHECK_RETRIES + 1 = 11, it dispatches (updateConversationCategory)
\* and schedules no further poll.
C1_SchedulerTermination ==
    /\ \A t \in BagToSet(timers) :
          t.retry <= MAX_SNIPPET_CHECK_RETRIES /\ t.polls = t.retry
    /\ ev.op = "poll" =>
          /\ ev.retry <= MAX_SNIPPET_CHECK_RETRIES
          /\ ev.polls = ev.retry + 1
          /\ ev.scheduled <=> ev.branch = "retry"
          /\ ev.branch = "retry" => ev.retry < MAX_SNIPPET_CHECK_RETRIES
          /\ (ev.retry = MAX_SNIPPET_CHECK_RETRIES /\ ev.branch # "absent") =>
                PollDispatched
          /\ ev.branch = "timeout" =>
                /\ ev.polls = MAX_SNIPPET_CHECK_RETRIES + 1
                /\ \E p \in inflight : p.id = ev.id /\ p.via = "timeout"

C1_Witness ==
    /\ ev.op = "poll"
    /\ ev.branch = "timeout"
    /\ ev.polls = 11
    /\ ~ev.scheduled
    /\ present[ev.id]
    /\ \E p \in inflight : p.id = ev.id

\* C2: change detection.  A poll of a card without a stored fingerprint that
\* observes non-empty text X takes the change-detected branch: it stores X as the
\* fingerprint and dispatches the classification of X.  A poll that observes the
\* text that is the stored fingerprint does not take the change-detected branch.
C2_ChangeDetection ==
    (ev.op = "poll" /\ ev.branch # "absent") =>
       /\ (ev.previous = Empty /\ ev.observed # Empty) =>
             /\ ev.branch = "changed"
             /\ MapHas(processedSnippets, ev.id)
             /\ processedSnippets[ev.id] = ev.observed
             /\ \E p \in inflight : p.id = ev.id /\ p.text = ev.observed
       /\ ev.observed = ev.previous => ev.branch # "changed"

C2_Witness ==
    /\ ev.op = "poll"
    /\ ev.src = "notify"
    /\ ev.observed # Empty
    /\ ev.observed = ev.previous
    /\ ev.branch = "retry"
    /\ nDispatch[ev.id] = 1

\* C3: empty text is never a meaningful change.  Whatever the stored fingerprint
\* is, a poll that observes empty text does not take the change-detected branch
\* and leaves the Map of fingerprints as it was; no fingerprint is ever the
\* empty string.
C3_EmptyNeverMeaningful ==
    /\ \A id \in DOMAIN processedSnippets : processedSnippets[id] # Empty
    /\ (ev.op = "poll" /\ ev.observed = Empty) =>
          /\ ev.branch # "changed"
          /\ ~ev.committed

C3_Witness ==
    /\ ev.op = "poll"
    /\ ev.branch = "timeout"
    /\ ev.observed = Empty
    /\ ev.previous # Empty
    /\ MapHas(processedSnippets, ev.id)
    /\ processedSnippets[ev.id] = ev.previous

\* C4, as stated: every dispatch of the polling path comes after the commit of
\* the text the poll observed, so the fingerprint of the card is that text when
\* the classification is dispatched.
C4_CommitBeforeEveryDispatch ==
    (PollDispatched /\ present[ev.id]) =>
       /\ MapHas(processedSnippets, ev.id)
       /\ processedSnippets[ev.id] = ev.observed

\* C4, amended: a dispatch of the polling path that observed non-empty text comes
\* after the commit of that text (the classification it starts reads the
\* committed fingerprint), and the cache write of a dispatch comes after the
\* dispatch, when the fingerprint is the classified text; the forced dispatch
\* that observes empty text commits nothing.
C4_CommitDispatchWrite ==
    /\ \A p \in inflight :
          p.text # Empty =>
             MapHas(processedSnippets, p.id) /\ processedSnippets[p.id] = p.text
    /\ (PollDispatched /\ ev.observed # Empty) =>
          /\ MapHas(processedSnippets, ev.id)
          /\ processedSnippets[ev.id] = ev.observed
          /\ \E p \in inflight : p.id = ev.id /\ p.text = ev.observed
    /\ (PollDispatched /\ ev.observed = Empty) => ~ev.committed
    /\ ev.op = "classified" =>
          /\ ev.via \in {"changed", "timeout"}
          /\ ev.text # Empty => ev.fingerprint = ev.text
          /\ MapHas(cachedClassifications, ev.id)
          /\ cachedClassifications[ev.id] = ev.category

C4_Witness ==
    /\ ev.op = "classified"
    /\ ev.via = "changed"
    /\ ev.text # Empty
    /\ ev.fingerprint = ev.text
    /\ cachedClassifications[ev.id] = ev.category

C6_CacheCoherence ==
    \A id \in DOMAIN lastSet :
       (\A h \in handlers : ~TouchesId(h, id)) =>
          /\ MapHas(getCache(store), id)
          /\ getCache(store)[id] = lastSet[id]

\* C8: epoch validation.  validateCache that reads an epoch with
\* now > cacheExpiry or storedVersion < CURRENT_CACHE_VERSION returns false and
\* leaves cachedClassifications empty; otherwise it returns true and leaves the
\* stored cachedClassifications, cacheVersion and cacheExpiry as they were.
C8_EpochValidation ==
    ev.op = "validated" =>
       IF \/ ev.at > cacheExpiryOf(ev.before)
          \/ storedVersionOf(ev.before) < CURRENT_CACHE_VERSION
       THEN /\ ev.result = FALSE
            /\ getCache(store) = EmptyMap
       ELSE /\ ev.result = TRUE
            /\ store = ev.before

C8_Witness ==
    /\ ev.op = "validated"
    /\ ev.result = FALSE
    /\ ev.at > cacheExpiryOf(ev.before)
    /\ storedVersionOf(ev.before) = CURRENT_CACHE_VERSION
    /\ getCache(ev.before) # EmptyMap
    /\ getCache(store) = EmptyMap

(***************************************************************************)
(* Properties of the pipeline (Spec)                                       *)
(***************************************************************************)
\* C7: the cache write of the content script reaches the persistent store.  Once
\* the content script has sent its cache to the background and the background
\* has nothing left to do, the stored cachedClassifications holds every entry
\* of the cache that was sent.
C7_CacheWriteApplied ==
    (sent.has /\ handlers = {}) =>
       \A id \in DOMAIN sent.cache :
          /\ MapHas(getCache(store), id)
          /\ getCache(store)[id] = sent.cache[id]

\* C9: bootstrap with a stale epoch.  When the content script has finished its
\* bootstrap, the stored epoch has been validated: the stored version is the
\* expected one and the expiry has not passed, a stale cache having been
\* cleared on the way.
C9_EpochValidatedAtBootstrap ==
    pc = "ready" =>
       /\ storedVersionOf(store) >= CURRENT_CACHE_VERSION
       /\ now <= cacheExpiryOf(store)

C12_InitialScanKeepsCachedLabels ==
    ev.op = "initial" =>
       /\ ev.classified = {id \in Ids : present[id] /\ unread[id]}
       /\ \A id \in Ids :
             (present[id] /\ ~unread[id]) =>
                IF MapHas(ev.cacheBefore, id)
                THEN label[id] = ev.cacheBefore[id]
                ELSE label[id] = NoTag

(***************************************************************************)
(* C12, amended: the initial scan hands exactly the unread items to the    *)
(* classifier; every read item ends the scan with no label, whether or not *)
(* it has a cache entry, and its cache entry is left as it was.            *)
(***************************************************************************)
C12_InitialScanUnlabelsRead ==
    ev.op = "initial" =>
       /\ ev.classified = {id \in Ids : present[id] /\ unread[id]}
       /\ \A id \in Ids :
             (present[id] /\ ~unread[id]) =>
                /\ label[id] = NoTag
                /\ MapHas(cachedClassifications, id) = MapHas(ev.cacheBefore, id)
                /\ MapHas(ev.cacheBefore, id) =>
                      cachedClassifications[id] = ev.cacheBefore[id]

C12_Witness ==
    /\ ev.op = "initial"
    /\ \E id, other \in Ids :
          /\ ~unread[id]
          /\ MapHas(ev.cacheBefore, id)
          /\ ev.labelBefore[id] = ev.cacheBefore[id]
          /\ label[id] = NoTag
          /\ unread[other]
          /\ other \in ev.classified

(***************************************************************************)
(* C13: a step that runs handleMessageRead(id) leaves the item with no     *)
(* label, no cache entry and no fingerprint, and leaves the label, the     *)
(* cache entry and the fingerprint of every other item as they were.       *)
(***************************************************************************)
C13_ReadForgetsOnlyThatItem ==
    [][ev'.op = "read" =>
          /\ label'[ev'.id] = NoTag
          /\ ~MapHas(cachedClassifications', ev'.id)
          /\ ~MapHas(processedSnippets', ev'.id)
          /\ \A o \in Ids \ {ev'.id} :
                /\ label'[o] = label[o]
                /\ MapHas(cachedClassifications', o) = MapHas(cachedClassifications, o)
                /\ MapHas(cachedClassifications, o) =>
                      cachedClassifications'[o] = cachedClassifications[o]
                /\ MapHas(processedSnippets', o) = MapHas(processedSnippets, o)
                /\ MapHas(processedSnippets, o) =>
                      processedSnippets'[o] = processedSnippets[o]]_vars

C13_Witness ==
    /\ ev.op = "read"
    /\ ev.existingTag /\ ev.isInCache /\ ev.isInProcessed
    /\ label[ev.id] = NoTag
    /\ ~MapHas(cachedClassifications, ev.id)
    /\ ~MapHas(processedSnippets, ev.id)
    /\ \E o \in Ids \ {ev.id} :
          /\ label[o] # NoTag
          /\ MapHas(cachedClassifications, o)
          /\ MapHas(processedSnippets, o)

(***************************************************************************)
(* Keyword scores of content.js's rules, as the claims count them          *)
(***************************************************************************)
RuleKeywords(c) ==
    CASE c = "Job Offers" -> JobKeywords
      [] c = "Networking" -> NetworkingKeywords
      [] c = "Sales" -> SalesKeywords
      [] c = "Spam" -> SpamKeywords

RuleScore(fullText, c) ==
    Cardinality({k \in RuleKeywords(c) : Includes(fullText, k)})

LocalCategorySet == {"Job Offers", "Networking", "Sales", "Spam"}

\* The endpoint did not answer with a known category.
RemoteFailed(outcome) ==
    \/ outcome.kind # "answer"
    \/ \A c \in Categories : Spell(c) # Trim(outcome.content)

(***************************************************************************)
(* C14: classifyMessage never throws: for every text, every settings and   *)
(* every remote outcome it resolves to one of the categories, the remote   *)
(* call itself resolves to a category, and when the remote call was made   *)
(* and failed the result is 'Other'.                                       *)
(***************************************************************************)
C14_ClassifyNeverThrows ==
    ev.op = "classifyMessage" =>
       /\ ev.result \in Categories
       /\ ev.remote \in Categories
       /\ (ev.requested /\ RemoteFailed(ev.outcome)) =>
             ev.remote = "Other" /\ ev.result = "Other"

C14_Witness ==
    /\ ev.op = "classifyMessage"
    /\ ev.requested
    /\ ev.outcome.kind = "network_error"
    /\ ev.result = "Other"

(***************************************************************************)
(* C16: as stated, classifyMessage never returns a local category whose    *)
(* keyword score is below 2: a local result has score at least 2, and when *)
(* every score is below 2 no local rule decides.                           *)
(***************************************************************************)
C16_LocalThreshold ==
    ev.op = "classifyMessage" =>
       /\ ev.local # NoTag => RuleScore(ev.fullText, ev.local) >= LocalThreshold
       /\ (\A c \in LocalCategorySet : RuleScore(ev.fullText, c) < LocalThreshold) =>
             ev.local = NoTag

(***************************************************************************)
(* C17: as stated, the local result of classifyMessage is never a category *)
(* whose keyword score is lower than another category's score.             *)
(***************************************************************************)
C17_LocalHighestScore ==
    ev.op = "classifyMessage" =>
       (ev.local # NoTag =>
           \A c \in LocalCategorySet :
              RuleScore(ev.fullText, c) <= RuleScore(ev.fullText, ev.local))

(***************************************************************************)
(* C18: as stated, in LocalClassifier.classify the score of each category  *)
(* is the number of distinct keywords of that category the text includes,  *)
(* and a text that includes at most one distinct keyword of each category  *)
(* is classified 'Other'.                                                  *)
(***************************************************************************)
C18_ScoreCountsDistinctKeywords ==
    ev.op = "classify" =>
       LET distinct(i) ==
              Cardinality({k \in {keywords(LocalCategories[i])[j] :
                                     j \in 1..Len(keywords(LocalCategories[i]))} :
                              Includes(ToLowerCase(ev.text), k)})
       IN  /\ \A i \in 1..Len(LocalCategories) : ev.scores[i] = distinct(i)
           /\ (\A i \in 1..Len(LocalCategories) : distinct(i) < LocalThreshold) =>
                 ev.result = "Other"

(***************************************************************************)
(* C19: classifyMessage calls the remote classifier only when no local     *)
(* rule matched and the settings hold both useAI and a non-empty apiKey.   *)
(***************************************************************************)
C19_RemoteGated ==
    ev.op = "classifyMessage" =>
       (ev.requested =>
           /\ \A c \in LocalCategorySet : RuleScore(ev.fullText, c) = 0
           /\ settings.loaded
           /\ settings.useAI
           /\ settings.apiKey # Empty)

C19_Witness ==
    /\ ev.op = "classifyMessage"
    /\ ev.requested
    /\ settings.useAI
    /\ settings.apiKey # Empty
    /\ ev.outcome.kind = "answer"
    /\ ev.result = "Sales"

(***************************************************************************)
(* C15: as stated, a scan that awaits a remote classification always       *)
(* proceeds: whenever classifyMessage is suspended on the remote call, the *)
(* call eventually returns, whether or not the endpoint responds.          *)
(***************************************************************************)
C15_RemoteCallReturns ==
    (\E p \in inflight : p.via = "scan") ~> (inflight = {})

(***************************************************************************)
(* C20: every value in cachedClassifications and every label is one of the *)
(* five categories, and so is the category a resumed classifyMessage       *)
(* returned, whatever the endpoint answered.                               *)
(***************************************************************************)
C20_CategoryValidity ==
    /\ \A id \in Ids :
          /\ label[id] \in Categories \cup {NoTag}
          /\ MapHas(cachedClassifications, id) =>
                cachedClassifications[id] \in Categories
    /\ ev.op = "remoteResponded" => ev.category \in Categories

C20_Witness ==
    /\ ev.op = "remoteResponded"
    /\ ev.outcome.kind = "answer"
    /\ \A c \in Categories : Spell(c) # Trim(ev.outcome.content)
    /\ ev.category = "Other"
    /\ cachedClassifications[ev.id] = "Other"
    /\ label[ev.id] = "Other"

(***************************************************************************)
(* C21: with the remote classifier disabled, the category a classification *)
(* resolves to is the one classifyMessage returns for the same text,       *)
(* sender and subject under any settings that disable the remote step and  *)
(* any behaviour of the endpoint, whatever the cache and the fingerprints  *)
(* hold and however many dispatches preceded when the call is made.        *)
(***************************************************************************)
RemoteDisabledSettings ==
    {NoSettings,
     [loaded |-> TRUE, useAI |-> FALSE, apiKey |-> <<"k">>],
     [loaded |-> TRUE, useAI |-> TRUE, apiKey |-> Empty]}

C22_FilterIsPureQuery ==
    [][ev'.op = "filter" =>
          /\ cachedClassifications' = cachedClassifications
          /\ processedSnippets' = processedSnippets
          /\ store' = store
          /\ label' = label
          /\ inflight' = inflight
          /\ timers' = timers
          /\ handlers' = handlers
          /\ sent' = sent
          /\ \A id \in Ids :
                present[id] =>
                   ((ev'.display[id] = "") <=> (label'[id] = ev'.category))]_vars

C22_Witness ==
    /\ ev.op = "filter"
    /\ cachedClassifications # EmptyMap
    /\ \E shown, hidden \in Ids :
          /\ ev.display[shown] = ""
          /\ label[shown] = ev.category
          /\ ev.display[hidden] = "none"
          /\ label[hidden] \notin {NoTag, ev.category}

(***************************************************************************)
(* C23: as stated, right after an explicit clear of the cache, by the      *)
(* background's clearCache or by the popup's button, the stored cache is   *)
(* empty, cacheExpiry is the time of the clear plus seven days and         *)
(* cacheVersion is what it was.                                            *)
(***************************************************************************)
C23_ClearIssuesFreshEpoch ==
    ev.op \in {"cleared", "popupCleared"} =>
       /\ getCache(store) = EmptyMap
       /\ cacheExpiryOf(store) = ev.at + DEFAULT_CACHE_EXPIRY_DURATION
       /\ storedVersionOf(store) = ev.versionBefore

(***************************************************************************)
(* C24: a poll that runs for an item that is no longer in the document     *)
(* schedules no poll, dispatches no classification and leaves the          *)
(* fingerprints, the local cache, the labels and the messages to the       *)
(* background as they were.                                                *)
(***************************************************************************)
C24_AbortOnRemoval ==
    [][(ev'.op = "poll" /\ ~present'[ev'.id]) =>
          /\ \A t \in BagToSet(timers') : CopiesIn(t, timers') <= CopiesIn(t, timers)
          /\ inflight' = inflight
          /\ processedSnippets' = processedSnippets
          /\ cachedClassifications' = cachedClassifications
          /\ label' = label
          /\ sent' = sent]_vars

C24_Witness ==
    /\ ev.op = "poll"
    /\ ev.branch = "absent"
    /\ ~present[ev.id]
    /\ timers = EmptyBag
    /\ inflight = {}
    /\ MapHas(processedSnippets, ev.id)
    /\ MapHas(cachedClassifications, ev.id)

(***************************************************************************)
(* C25: as stated, the text handed to the classifier by the poll that      *)
(* gives up after MAX_SNIPPET_CHECK_RETRIES retries is the snippet text    *)
(* that poll observed, also when that text is empty and an older           *)
(* fingerprint is stored.                                                  *)
(***************************************************************************)
C25_ForcedDispatchUsesVisibleText ==
    (ev.op = "poll" /\ ev.branch = "timeout") =>
       \A p \in inflight :
          (p.id = ev.id /\ p.via = "timeout") => p.text = ev.observed

(***************************************************************************)
(* C26: as stated, once the read signal of an item has been handled, the   *)
(* item has no local cache entry, no fingerprint and no label until a      *)
(* later unread or change signal arrives for it: the step that follows the *)
(* handling of the read signal, unless it handles such a signal, leaves    *)
(* the item without any of them.  A poll that was pending when the read    *)
(* signal was handled is no such signal.                                   *)
(***************************************************************************)
ReadHandled(id) == ev.op = "read" /\ ev.id = id

CarriesNothing(id) ==
    /\ label[id] = NoTag
    /\ ~MapHas(cachedClassifications, id)
    /\ ~MapHas(processedSnippets, id)

\* The handler that ran last was woken by a badge, a mutation or a new card
\* of the item, or the item's snippet was rendered anew.
SignalArrived(id) ==
    /\ ev.op \in {"poll", "mutation", "added", "rerender"}
    /\ ev.id = id
    /\ ev.op = "poll" => ev.src # "timer"

C26_ReadItemsStayClean ==
    [][\A id \in SchedIds :
          (ReadHandled(id) /\ ~SignalArrived(id)') => CarriesNothing(id)']_vars

(***************************************************************************)
(* C27: as stated, at any time at most one poll timer is pending for an    *)
(* item: a signal for an item whose chain is pending starts no second one. *)
(***************************************************************************)
C27_OneChainPerItem ==
    \A t1, t2 \in BagToSet(timers) :
       t1.id = t2.id => (t1 = t2 /\ CopiesIn(t1, timers) = 1)

(***************************************************************************)
(* C28: as stated, a step writes the fingerprint of an item only if the    *)
(* same step dispatches a classification for that item (or classifies it   *)
(* within a scan), and the poll started by a snippet mutation that carries *)
(* new non-empty text dispatches at attempt 0.                             *)
(***************************************************************************)
C28_FingerprintOnlyAtDispatch ==
    [][/\ \A id \in Ids :
             (/\ MapHas(processedSnippets', id)
              /\ (MapHas(processedSnippets, id) =>
                     processedSnippets'[id] # processedSnippets[id]))
             => \/ \E p \in inflight' \ inflight : p.id = id
                \/ ev'.op \in {"scan", "bootstrap"} /\ id \in ev'.classified
       /\ (ev'.op = "poll" /\ ev'.src = "mutation") => ev'.branch = "changed"]_vars

(***************************************************************************)
(* C29: as stated, a validateCache that reads the clock exactly at the     *)
(* stored cacheExpiry treats the epoch as invalid: it returns false and    *)
(* leaves the stored cache empty.                                          *)
(***************************************************************************)
C29_ExpiredAtExpiryInstant ==
    (ev.op = "validated" /\ ev.at = cacheExpiryOf(ev.before)) =>
       /\ ev.result = FALSE
       /\ getCache(store) = EmptyMap

(***************************************************************************)
(* C30: as stated, while a validateCache that found the epoch invalid is   *)
(* suspended, the store never holds the cleared records together with a    *)
(* cacheVersion below CURRENT_CACHE_VERSION; and right after validateCache *)
(* returned false the stored cache is empty, cacheVersion is               *)
(* CURRENT_CACHE_VERSION and cacheExpiry is later than now.                *)
(***************************************************************************)
C30_AtomicInvalidation ==
    /\ \A h \in handlers :
          (h.kind = "validateCache" /\ h.pc = "version") =>
             storedVersionOf(store) >= CURRENT_CACHE_VERSION
    /\ (ev.op = "validated" /\ ev.result = FALSE) =>
          /\ getCache(store) = EmptyMap
          /\ storedVersionOf(store) = CURRENT_CACHE_VERSION
          /\ cacheExpiryOf(store) > now

(***************************************************************************)
(* Properties of the store under stale epochs and failures (SpecDegraded)  *)
(***************************************************************************)
\* The step is the last one of updateCacheEntry(h.id, h.cat): its setCache.
UpdateCompletes(h) ==
    /\ h \in handlers
    /\ h.kind = "updateCacheEntry"
    /\ h.pc = "set"
    /\ handlers' = handlers \ {h}
    /\ ev'.op = "cacheWrite"

EpochInvalid(st, t) == cacheInvalid(t, cacheExpiryOf(st), storedVersionOf(st))

\* C31: as stated, updateCacheEntry(id, c) on an invalid epoch (expired, or a
\* version below the current one) evicts first: when it completes, the store
\* holds the record id -> c and no other, under an epoch that is valid.
C31_WriteOnInvalidEpochEvicts ==
    [][\A h \in handlers :
          (UpdateCompletes(h) /\ EpochInvalid(store, now)) =>
             /\ getCache(store') = [k \in {h.id} |-> h.cat]
             /\ ~EpochInvalid(store', now')]_vars

\* The record the stored cache holds for id, NoTag when it holds none.
RecordOf(st, id) == IF MapHas(getCache(st), id) THEN getCache(st)[id] ELSE NoTag

\* C32: as stated, with updateCacheEntry and deleteCacheEntry handlers on
\* different ids interleaved in any way, the write that completes an operation
\* on one id leaves the stored record of every other id as it was.
C32_NoLostUpdateAcrossKeys ==
    [][ev'.op = "cacheWrite" =>
          \A k \in Ids \ {ev'.id} : RecordOf(store', k) = RecordOf(store, k)]_vars

\* C33: as stated, when the read of the store fails during
\* updateCacheEntry(id, c), the write that follows leaves the stored records of
\* all other ids as they were: the handler whose getCache has just failed does
\* not write an otherwise empty cache over them.
C33_FailedReadKeepsOtherRecords ==
    [][\A h \in handlers :
          (/\ ev.op = "cacheReadFailed"
           /\ ev.kind = "updateCacheEntry"
           /\ h.id = ev.id
           /\ h.cat = ev.cat
           /\ h.snap = MapSet(EmptyMap, ev.id, ev.cat)
           /\ UpdateCompletes(h)) =>
             \A k \in Ids \ {h.id} : RecordOf(store', k) = RecordOf(store, k)]_vars

(***************************************************************************)
(* Properties of the bootstrap (Spec)                                      *)
(***************************************************************************)
\* C34: a failed load of settings and cache is not fatal.  When the getSettings
\* callback brings an error or no response, the content script goes on with
\* empty settings and an empty local cache, and the scan that follows
\* classifies every unread card with the local rules: the card is handed to
\* the classifier, and its tag and its cache entry are the category the
\* keyword rules give its text, whatever a remote endpoint would answer.
C34_BootstrapFailureNotFatal ==
    (ev.op = "bootstrap" /\ ~ev.delivered) =>
       /\ pc = "ready"
       /\ settings = NoSettings
       /\ ev.loadedCache = EmptyMap
       /\ \A id \in Ids :
             (present[id] /\ unread[id]) =>
                /\ id \in ev.classified
                /\ MapHas(cachedClassifications, id)
                /\ label[id] = cachedClassifications[id]
                /\ \A outcome \in RemoteOutcomes :
                      label[id] = classifyMessage(extractMessageText(snippet, id),
                                                  extractSenderName(id),
                                                  extractSubject(id),
                                                  NoSettings, outcome)

C34_Witness ==
    /\ ev.op = "bootstrap"
    /\ ~ev.delivered
    /\ getCache(store) # EmptyMap
    /\ cachedClassifications = [id \in Ids |-> IF id = "a" THEN "Job Offers" ELSE "Other"]
    /\ label = cachedClassifications
    /\ \A id \in Ids : present[id] /\ unread[id]

\* C35: as stated, validateCache is total when the store fails: whichever of
\* its reads and writes fail, once the call is over it has resolved to a
\* boolean, never rejected to its caller.
C35_ValidateCacheTotal ==
    (\A h \in handlers : h.kind # "validateCache") =>
       /\ ev.op = "validated"
       /\ ev.result \in BOOLEAN

(***************************************************************************)
(* Properties of the running content script under a cache clear (SpecClear)*)
(***************************************************************************)
\* C36: as stated, a clear-cache action evicts the records of the running
\* content script too: the scan that follows the completed clear, nothing
\* having been classified in between, applies no cached category as a label
\* to a read card that carried none.
C36_ClearEvictsRunningPipeline ==
    [][(ev.op = "popupCleared" /\ ev'.op = "scan") =>
          \A id \in SchedIds :
             (present[id] /\ ~unread[id] /\ label[id] = NoTag) =>
                label'[id] = NoTag]_vars

(***************************************************************************)
(* Properties of the listener's response channel (Spec)                    *)
(***************************************************************************)
\* C37: as stated, every request the listener answers after an await keeps
\* its response channel open: the handler that is suspended on its await has
\* an open port, and the response of getSettings is delivered to the requester.
C37_ResponseChannelKeptOpen ==
    /\ \A h \in handlers : h.kind \in HandledActions => h.port = "open"
    /\ ev.op = "sendSettings" => ev.delivered
    /\ reply.state # "closed"

(***************************************************************************)
(* Properties of the message observer (SpecObserver)                       *)
(***************************************************************************)
\* C38: as stated, applying a label does not itself start a scan: every scan
\* is started by nodes the document added to the list, none by the tag a
\* scan's own applyCategory appended, so that without document signals the
\* script comes to rest, also with an unread card or a cached category.
C38_LabelTriggersNoScan ==
    ev.op = "scan" => ev.trigger = "document"

(***************************************************************************)
(* Properties of concurrent classifications of one card (SpecRace)         *)
(***************************************************************************)
\* C39: as stated, no stale overwrite.  When the last of the classifications
\* that were in flight for a card completes, the category it writes to the
\* cache and the label is the result for the text committed last, the card's
\* fingerprint, in whatever order the classifications completed.
C39_NoStaleOverwrite ==
    (/\ ev.op = "classified"
     /\ \A p \in inflight : p.id # ev.id) =>
       /\ ev.text = ev.fingerprint
       /\ cachedClassifications[ev.id] = ev.category
       /\ label[ev.id] = ev.category

(***************************************************************************)
(* Agreement of labels and local cache (SpecSched)                         *)
(***************************************************************************)
\* C40: label/cache agreement.  Whenever no classification is in flight for a
\* card that carries a label, the local cache holds an entry for the card and
\* the entry is the label's category.
C40_LabelCacheAgreement ==
    \A id \in Ids :
       (present[id] /\ label[id] # NoTag /\ \A p \in inflight : p.id # id) =>
          /\ MapHas(cachedClassifications, id)
          /\ cachedClassifications[id] = label[id]

C40_Witness ==
    /\ ev.op = "classified"
    /\ inflight = {}
    /\ ev.cachedBefore # NoTag
    /\ ev.cachedBefore # ev.category
    /\ present[ev.id]
    /\ label[ev.id] = ev.category
    /\ cachedClassifications[ev.id] = ev.category

====
